---- MODULE Spec2Model ----
(***************************************************************************)
(* A model of the diary bot (diary_bot_v2.py): the notification scheduler, *)
(* the persisted users document, the plan-editing handlers and the itog    *)
(* (evening review) handlers.                                              *)
(*                                                                         *)
(* Strings the code parses or compares piecewise (HH:MM times, item texts, *)
(* messages) are sequences of one-character strings; in a button's text a  *)
(* word stands for its letters.  None is the empty sequence for a time,    *)
(* NoDate for a date and 0 for a message id.  A calendar date is its day   *)
(* ordinal; strftime of a date is one-to-one, so two date strings of the   *)
(* same format are equal exactly when the ordinals are.                    *)
(*                                                                         *)
(* Time passes, and the scheduler and an update handler interleave, only   *)
(* while a coroutine is suspended in an await: the code between two awaits *)
(* is one action.  Updates are handled one at a time.                      *)
(***************************************************************************)
EXTENDS Integers, Sequences, FiniteSets, TLC

\* ---------------------------------------------------------------- bounds

\* Clock units per minute: asyncio.sleep(60) lasts SubMin units.
SubMin == 2
\* The clock stops at MaxNow units.
MaxNow == 6
\* Units of time that may pass while one tick is suspended in its sends.
ProcMax == 1
\* Process restarts in a behaviour.
MaxRestarts == 1

\* ------------------------------------------------------------- constants

UserIds == {"u1", "u2"}

DayMinutes == 24 * 60

\* DAYS_OF_WEEK, Monday first, as indices 0..6.
DAYS_OF_WEEK == 0 .. 6

\* The weekday of day ordinal 0.
EpochWeekday == 0

None == << >>
NoDate == -1

Digits == <<"0", "1", "2", "3", "4", "5", "6", "7", "8", "9">>

\* f"{n:02d}"
Fmt02(n) == <<Digits[(n \div 10) + 1], Digits[(n % 10) + 1]>>

\* f"{user_now.hour:02d}:{user_now.minute:02d}" of a minute of the day.
HHMM(m) == Fmt02(m \div 60) \o <<":">> \o Fmt02(m % 60)

SUMMARY_TIME == HHMM(23 * 60 + 59)
DEFAULT_NOTIFICATION_TIME == HHMM(9 * 60)

DEFAULT_TIMEZONE == "Asia/Irkutsk"
TIMEZONES == {"Asia/Irkutsk", "Europe/Moscow"}

\* The UTC offset of a zone, in minutes (ZoneInfo).
TzOffset(tz) == IF tz = "Europe/Moscow" THEN 3 * 60 ELSE 8 * 60

VARIABLES
    now,        \* the clock, in units of 60/SubMin seconds since the start
    base,       \* the UTC minute at clock 0
    usersFile,  \* users_data.json: [order, data]
    sched,      \* the notification_scheduler coroutine
    restarts,   \* process restarts so far
    briefs,     \* history: morning briefs delivered, event -> count
    rems,       \* history: timed reminders delivered, event -> count
    sums,       \* history: evening summaries delivered, event -> count
    trace,      \* history: facts about the scheduler's run
    nextId,     \* the next message id Telegram hands out
    conv,       \* the ConversationHandler's state of each user's chat
    udata,      \* context.user_data of each user
    inflight,   \* the update handler suspended in an await, if any
    itogs,      \* history: completed itog sessions, event -> count
    globalFile, \* global_plans.json: user id -> list of texts
    last,       \* history: what the last update handler that reported did
    answers,    \* history: the answers given since the user's session began
    chat        \* history: the bot's messages in each user's chat, when recorded

vars == <<now, base, usersFile, sched, restarts, briefs, rems, sums, trace, nextId,
          conv, udata, inflight, itogs, globalFile, last, answers, chat>>

\* The variables of the session handlers.
sess == <<conv, udata, inflight, itogs, globalFile, last, answers, chat>>

\* ------------------------------------------------------------------ time

\* get_user_timezone
get_user_timezone(user) == user.timezone

\* get_user_now: the user's local time as an absolute minute count.
get_user_now(user, t) == base + (t \div SubMin) + TzOffset(get_user_timezone(user))

DateOf(abs) == abs \div DayMinutes
TimeOf(abs) == HHMM(abs % DayMinutes)
\* today.weekday()
Weekday(date) == (EpochWeekday + date) % 7

\* ------------------------------------------------------------- documents

NoItog == [active |-> FALSE, date |-> NoDate, day_name |-> 0, plans |-> << >>,
           current_index |-> 0, completed |-> {}, list_message_id |-> 0,
           question_message_id |-> 0]

\* The record start() stores for a new user.
NewUser == [timezone |-> DEFAULT_TIMEZONE,
            notification_time |-> None,
            plans |-> [d \in DAYS_OF_WEEK |-> << >>],
            setup_complete |-> FALSE,
            last_message_id |-> 0,
            last_summary_date |-> NoDate,
            itog_state |-> NoItog,
            last_bot_message_id |-> 0,
            sent |-> {}]

EmptyDoc == [order |-> << >>, data |-> << >>]

\* users[user_id] = user
PutUser(doc, uid, user) ==
    IF uid \in DOMAIN doc.data
    THEN [doc EXCEPT !.data = [doc.data EXCEPT ![uid] = user]]
    ELSE [order |-> Append(doc.order, uid), data |-> doc.data @@ (uid :> user)]

\* user_data.get('plans', {}).get(day_name, [])
DayPlans(user, day) == IF day \in DOMAIN user.plans THEN user.plans[day] ELSE << >>

\* users.get(user_id, {}): a record that has none of the keys reads like a new
\* user's, but for its plans, which have no day.
GetUser(doc, uid) ==
    IF uid \in DOMAIN doc.data THEN doc.data[uid] ELSE [NewUser EXCEPT !.plans = << >>]

\* context.user_data when nothing has been stored in it.
FreshUserData == [action |-> "replace", deleting_day |-> FALSE, current_day |-> 0,
                  skip_day |-> FALSE, current_plans |-> << >>,
                  waiting_for_time |-> FALSE, choosing_timezone |-> FALSE,
                  global_action |-> "replace"]

\* No update handler is running.
Idle == [active |-> FALSE]

\* The history of update handlers: none has run yet, or none is recorded.
NoEvent == [kind |-> "none"]
Unobserved == [kind |-> "unobserved"]

\* A history bag with one more occurrence of e.
Logged(bag, e) ==
    IF e \in DOMAIN bag THEN [bag EXCEPT ![e] = @ + 1] ELSE bag @@ (e :> 1)


\* ------------------------------------------------------------- scheduler

\* The scheduler coroutine right after the process starts: its first tick
\* is due at once.
Boot(t) == [pc |-> "sleep", wake |-> t, users |-> EmptyDoc, i |-> 0, j |-> 0,
            seen |-> << >>, fresh |-> EmptyDoc, date2 |-> NoDate,
            busy |-> 0, ran |-> FALSE]

NotificationTimeOf_OtherDefault(user_data) ==
    IF user_data.notification_time = None
    THEN SUMMARY_TIME
    ELSE user_data.notification_time

\* user_data.get('notification_time') or '09:00'
NotificationTimeOf(user_data) ==
    IF user_data.notification_time = None
    THEN DEFAULT_NOTIFICATION_TIME
    ELSE user_data.notification_time

BriefDue_OncePerProfile(user_data, current_time) ==
    /\ current_time = NotificationTimeOf(user_data)
    /\ user_data.setup_complete
    /\ user_data.last_message_id = 0

BriefDue_NoSetup(user_data, current_time) ==
    current_time = NotificationTimeOf(user_data)

\* current_time == notification_time and user_data.get('setup_complete')
BriefDue(user_data, current_time) ==
    /\ current_time = NotificationTimeOf(user_data)
    /\ user_data.setup_complete

SentKey_DateOnly(today_key, plan) == <<today_key, << >>, << >> >>

SentKey_NoText(today_key, plan) == <<today_key, plan.time, << >> >>

\* sent_key = f"sent_{today_key}_{plan['time']}_{plan.get('text','')}": the
\* date and the time have fixed widths, so the key is one-to-one in the three.
SentKey(today_key, plan) == <<today_key, plan.time, plan.text>>

KeyRecorded_Never(user_data, sent_key) == FALSE

\* user_data.get(sent_key)
KeyRecorded(user_data, sent_key) == sent_key \in user_data.sent

\* plan.get("time") == current_time and not user_data.get(sent_key)
ReminderDue(user_data, plan, current_time, today_key) ==
    /\ plan.time = current_time
    /\ ~KeyRecorded(user_data, SentKey(today_key, plan))

\* The first item at or after position j of the day's plan that the loop
\* sends a reminder for; 0 when the loop ends without another send.
NextDue(user_data, current_time, today_key, j) ==
    LET day_plans == DayPlans(user_data, Weekday(today_key))
        due == {k \in j .. Len(day_plans) :
                   ReminderDue(user_data, day_plans[k], current_time, today_key)}
    IN  IF due = {} THEN 0 ELSE CHOOSE k \in due : \A m \in due : k <= m

\* The evening summary's condition.
SummaryDue(user_data, current_time, today_key) ==
    /\ current_time = SUMMARY_TIME
    /\ user_data.setup_complete
    /\ user_data.last_summary_date # today_key

\* await asyncio.sleep(60)
Sleep(s, t) == [s EXCEPT !.pc = "sleep", !.wake = t + SubMin, !.j = 0,
                         !.fresh = EmptyDoc, !.date2 = NoDate, !.busy = 0]

OnException_Exits(s, t) == [s EXCEPT !.pc = "exited", !.busy = 0]

\* except Exception as e: logger.error(...); await asyncio.sleep(60)
OnException(s, t) == [s EXCEPT !.pc = "sleep", !.wake = t + SubMin,
                               !.fresh = EmptyDoc, !.date2 = NoDate, !.busy = 0]

CurUid(s) == s.users.order[s.i]
CurUser(s) == s.users.data[CurUid(s)]

RECURSIVE RunUser(_, _, _, _)
RECURSIVE RunReminders(_, _, _, _)
RECURSIVE RunSummary(_, _, _)

\* The tick from the start of the iteration for the i-th profile up to its
\* next await; file is the users document on disk, t the clock.
RunUser(s, i, file, t) ==
    IF i > Len(s.users.order)
    THEN Sleep([s EXCEPT !.i = i], t)
    ELSE LET user_id == s.users.order[i]
             user_data == s.users.data[user_id]
             user_now == get_user_now(user_data, t)
             current_time == TimeOf(user_now)
             s1 == [s EXCEPT !.i = i, !.j = 0,
                             !.seen = (user_id :> [cur |-> current_time,
                                                   today |-> DateOf(user_now)]) @@ @]
         IN  IF BriefDue(user_data, current_time) /\ user_id \in DOMAIN file.data
             THEN \* send_daily_notification has loaded the file and awaits its send
                  [s1 EXCEPT !.pc = "briefSend", !.fresh = file]
             ELSE RunReminders(s1, 1, file, t)

\* The reminder loop of the current profile from item j on.
RunReminders(s, j, file, t) ==
    LET seen == s.seen[CurUid(s)]
        k == NextDue(CurUser(s), seen.cur, seen.today, j)
    IN  IF k # 0
        THEN [s EXCEPT !.pc = "remSend", !.j = k, !.fresh = EmptyDoc]
        ELSE RunSummary([s EXCEPT !.j = Len(DayPlans(CurUser(s), Weekday(seen.today))) + 1],
                        file, t)

\* user_data['last_summary_date'] = today_key, in the tick's own copy only.
MarkSummary(s) ==
    [s EXCEPT !.users = PutUser(@, CurUid(s),
                 [CurUser(s) EXCEPT !.last_summary_date = s.seen[CurUid(s)].today])]

\* The summary check of the current profile, then the next profile.
RunSummary(s, file, t) ==
    LET seen == s.seen[CurUid(s)]
    IN  IF SummaryDue(CurUser(s), seen.cur, seen.today)
        THEN IF CurUid(s) \in DOMAIN file.data
             THEN \* send_daily_summary has loaded the file, read the clock and
                  \* awaits its send
                  [s EXCEPT !.pc = "sumSend", !.fresh = file,
                            !.date2 = DateOf(get_user_now(file.data[CurUid(s)], t))]
             ELSE RunUser(MarkSummary(s), s.i + 1, file, t)
        ELSE RunUser([s EXCEPT !.fresh = EmptyDoc, !.date2 = NoDate], s.i + 1, file, t)

\* A send has failed and was caught where it was made.
NoteFail == [trace EXCEPT !.failed = TRUE]
\* An exception has reached the except branch of the scheduler's loop.
NoteRaised == [trace EXCEPT !.failed = TRUE, !.raised = TRUE]

\* while True: try: users = load_users(); for user_id, user_data in users.items()
SchedWake ==
    /\ sched.pc = "sleep"
    /\ now = sched.wake
    /\ sched' = RunUser([Boot(now) EXCEPT !.users = usersFile, !.ran = TRUE],
                        1, usersFile, now)
    /\ trace' = [trace EXCEPT !.afterFail = trace.raised]
    /\ UNCHANGED <<sess, now, base, usersFile, restarts, briefs, rems, sums, nextId>>

\* load_users raises: the tick ends in the except branch.
SchedLoadFails ==
    /\ sched.pc = "sleep"
    /\ now = sched.wake
    /\ sched' = OnException([Boot(now) EXCEPT !.ran = TRUE], now)
    /\ trace' = NoteRaised
    /\ UNCHANGED <<sess, now, base, usersFile, restarts, briefs, rems, sums, nextId>>

\* send_daily_notification from its send on: msg.message_id is stored in the
\* copy it loaded and that copy is saved; a failure is caught and logged there.
SchedBriefDone ==
    /\ sched.pc = "briefSend"
    /\ \E ok \in BOOLEAN :
        LET user_id == CurUid(sched)
            user_data == sched.fresh.data[user_id]
            saved == PutUser(sched.fresh, user_id,
                             [user_data EXCEPT !.last_message_id = nextId])
            file == IF ok THEN saved ELSE usersFile
        IN  /\ usersFile' = file
            /\ nextId' = IF ok THEN nextId + 1 ELSE nextId
            /\ briefs' = IF ok
                         THEN Logged(briefs, [u |-> user_id,
                                              cur |-> sched.seen[user_id].cur,
                                              nt |-> CurUser(sched).notification_time,
                                              setup |-> CurUser(sched).setup_complete,
                                              id |-> nextId])
                         ELSE briefs
            /\ trace' = IF ok THEN trace ELSE NoteFail
            /\ sched' = RunReminders(sched, 1, file, now)
    /\ UNCHANGED <<sess, now, base, restarts, rems, sums>>

\* await application.bot.send_message(...) returned: the key is set in the
\* tick's copy of the profile and the tick's whole copy is saved.
SchedReminderSent ==
    /\ sched.pc = "remSend"
    /\ LET user_id == CurUid(sched)
           seen == sched.seen[user_id]
           plan == DayPlans(CurUser(sched), Weekday(seen.today))[sched.j]
           user_data == [CurUser(sched) EXCEPT !.sent = @ \cup {SentKey(seen.today, plan)}]
           users == PutUser(sched.users, user_id, user_data)
       IN  /\ usersFile' = users
           /\ rems' = Logged(rems, [u |-> user_id, date |-> seen.today,
                                    time |-> plan.time, text |-> plan.text])
           /\ sched' = RunReminders([sched EXCEPT !.users = users], sched.j + 1, users, now)
    /\ UNCHANGED <<sess, now, base, restarts, briefs, sums, trace, nextId>>

\* The reminder's send_message raises: nothing in the loop catches it, the
\* tick ends in the scheduler's except branch.
SchedReminderFails ==
    /\ sched.pc = "remSend"
    /\ sched' = OnException(sched, now)
    /\ trace' = NoteRaised
    /\ UNCHANGED <<sess, now, base, usersFile, restarts, briefs, rems, sums, nextId>>

\* send_daily_summary from its send on, then the scheduler's own
\* user_data['last_summary_date'] = today_key.
SchedSummaryDone ==
    /\ sched.pc = "sumSend"
    /\ \E ok \in BOOLEAN :
        LET user_id == CurUid(sched)
            user_data == sched.fresh.data[user_id]
            saved == PutUser(sched.fresh, user_id,
                             [user_data EXCEPT !.last_summary_date = sched.date2])
            file == IF ok THEN saved ELSE usersFile
        IN  /\ usersFile' = file
            /\ sums' = IF ok
                       THEN Logged(sums, [u |-> user_id,
                                          cur |-> sched.seen[user_id].cur,
                                          today |-> sched.seen[user_id].today,
                                          date2 |-> sched.date2,
                                          setup |-> CurUser(sched).setup_complete,
                                          last |-> CurUser(sched).last_summary_date,
                                          stored |-> file.data[user_id].last_summary_date])
                       ELSE sums
            /\ trace' = IF ok THEN trace ELSE NoteFail
            /\ sched' = RunUser(MarkSummary(sched), sched.i + 1, file, now)
    /\ UNCHANGED <<sess, now, base, restarts, briefs, rems, nextId>>

\* Time passes: while the scheduler sleeps, up to its wake-up; while a tick
\* is suspended in a send, at most ProcMax units per tick.
Advance ==
    /\ now < MaxNow
    /\ IF sched.pc = "sleep" THEN now < sched.wake ELSE sched.busy < ProcMax
    /\ now' = now + 1
    /\ sched' = IF sched.pc = "sleep" THEN sched ELSE [sched EXCEPT !.busy = @ + 1]
    /\ UNCHANGED <<sess, base, usersFile, restarts, briefs, rems, sums, trace, nextId>>

\* The process is restarted: post_init starts a new scheduler task, whose
\* first tick runs at once; a send in flight is lost.
Restart ==
    /\ restarts < MaxRestarts
    /\ restarts' = restarts + 1
    /\ sched' = Boot(now)
    /\ conv' = [u \in UserIds |-> "none"]
    /\ udata' = [u \in UserIds |-> FreshUserData]
    /\ inflight' = Idle
    /\ UNCHANGED <<now, base, usersFile, briefs, rems, sums, trace, nextId, itogs,
                   globalFile, last, answers, chat>>

\* ------------------------------------------------- scheduler-only system

Item(time, text) == [time |-> time, text |-> text]

T2359 == HHMM(23 * 60 + 59)
T0000 == HHMM(0)

\* The local (default zone) minutes of the day at which a behaviour starts.
StartMinutes == {23 * 60 + 59, 9 * 60}

\* Plans a user may have entered for the first day of the window ...
FirstDayPlans ==
    { << >>,
      <<Item(T2359, <<"a">>)>>,
      <<Item(T2359, <<"a">>), Item(T2359, <<"b">>)>>,
      <<Item(T2359, <<"a">>), Item(T2359, <<"a">>)>>,
      <<Item(None, <<"c">>), Item(T2359, <<"a">>)>> }

\* ... and for the day after it.
NextDayPlans == { << >>, <<Item(T0000, <<"d">>)>> }

\* A profile as the session handlers leave it.
Profile(p0, p1, setup, nt) ==
    [NewUser EXCEPT !.plans = [d \in DAYS_OF_WEEK |->
                                  IF d = Weekday(0) THEN p0
                                  ELSE IF d = Weekday(1) THEN p1 ELSE << >>],
                    !.setup_complete = setup,
                    !.notification_time = nt]

SchedDocs ==
    { [order |-> <<"u1", "u2">>,
       data |-> ("u1" :> Profile(p0, p1, s1, nt)) @@ ("u2" :> Profile(q0, << >>, s2, None))] :
         p0 \in FirstDayPlans, p1 \in NextDayPlans, s1 \in BOOLEAN,
         nt \in {None, T2359}, q0 \in {<< >>, <<Item(T2359, <<"a">>)>>},
         s2 \in BOOLEAN }

InitHistory ==
    /\ restarts = 0
    /\ briefs = << >>
    /\ rems = << >>
    /\ sums = << >>
    /\ trace = [failed |-> FALSE, raised |-> FALSE, afterFail |-> FALSE]
    /\ nextId = 1
    /\ conv = [u \in UserIds |-> "none"]
    /\ udata = [u \in UserIds |-> FreshUserData]
    /\ inflight = Idle
    /\ itogs = << >>
    /\ globalFile = << >>
    /\ answers = [u \in UserIds |-> << >>]

InitSched ==
    /\ now \in 0 .. (SubMin - 1)
    /\ base \in {m - TzOffset(DEFAULT_TIMEZONE) : m \in StartMinutes}
    /\ usersFile \in SchedDocs
    /\ sched = Boot(now)
    /\ InitHistory
    /\ last = Unobserved
    /\ chat = Unobserved

NextSched ==
    \/ SchedWake
    \/ SchedLoadFails
    \/ SchedBriefDone
    \/ SchedReminderSent
    \/ SchedReminderFails
    \/ SchedSummaryDone
    \/ Advance
    \/ Restart

SpecSched == InitSched /\ [][NextSched]_vars

\* ------------------------------------------------------ scheduler claims

\* The position of a profile in the tick's iteration.
Pos(u) == CHOOSE k \in 1 .. Len(sched.users.order) : sched.users.order[k] = u

\* In the tick sched describes, the reminder loop has gone past item k of u.
Passed(u, k) == Pos(u) < sched.i \/ (Pos(u) = sched.i /\ k < sched.j)

RemEvent(u, date, plan) == [u |-> u, date |-> date, time |-> plan.time, text |-> plan.text]

\* C1: over any sequence of scheduler ticks, the reminder of a key (local
\* date, item time, item text) is delivered to a profile at most once, also
\* when a second tick observes the same local minute.
C1_ReminderAtMostOnce == \A e \in DOMAIN rems : rems[e] <= 1

\* A tick started after a restart awaits the brief of a profile whose item
\* is due in the minute it observes and whose key it has loaded as recorded.
C1_SecondTickFindsKey ==
    /\ restarts = 1
    /\ sched.pc = "briefSend"
    /\ \E e \in DOMAIN rems :
          /\ e.u = CurUid(sched)
          /\ sched.seen[e.u] = [cur |-> e.time, today |-> e.date]
          /\ <<e.date, e.time, e.text>> \in CurUser(sched).sent

\* C2: once a tick's reminder loop has gone past an item of today's plan
\* whose time is the observed HH:MM, that item's reminder has been delivered
\* exactly once and its key is in the persisted profile; every delivered
\* reminder is that of a timed item of the plan of its day.
C2_DueItemsReminded ==
    /\ \A u \in DOMAIN sched.seen :
          LET seen == sched.seen[u]
              day_plans == DayPlans(sched.users.data[u], Weekday(seen.today))
          IN  \A k \in 1 .. Len(day_plans) :
                 (Passed(u, k) /\ day_plans[k].time = seen.cur) =>
                    /\ SentKey(seen.today, day_plans[k]) \in usersFile.data[u].sent
                    /\ RemEvent(u, seen.today, day_plans[k]) \in DOMAIN rems
                    /\ rems[RemEvent(u, seen.today, day_plans[k])] = 1
    /\ \A e \in DOMAIN rems :
          /\ e.time # None
          /\ \E k \in DOMAIN DayPlans(usersFile.data[e.u], Weekday(e.date)) :
                DayPlans(usersFile.data[e.u], Weekday(e.date))[k] = Item(e.time, e.text)

\* Two distinct items sharing a time, after an untimed one or not, have each
\* had their reminder in one tick.
C2_TwoItemsSameMinute ==
    /\ restarts = 0
    /\ \E e1 \in DOMAIN rems, e2 \in DOMAIN rems :
          /\ e1.u = e2.u /\ e1.date = e2.date /\ e1.time = e2.time
          /\ e1.text # e2.text
          /\ sched.pc = "sumSend" /\ CurUid(sched) = e1.u

\* The local minutes of u that began after the process started and are over.
MinutesOver(u) ==
    (get_user_now(usersFile.data[u], 0) + 1) .. (get_user_now(usersFile.data[u], now) - 1)

\* C3: every timed item of today's plan is reminded on that day: with the
\* scheduler running and every send succeeding, once the local minute equal
\* to the item's time is over and the tick is asleep, the item's reminder
\* has been delivered.
C3_EveryTimedItemReminded ==
    (~trace.failed /\ restarts = 0 /\ sched.pc = "sleep") =>
        \A u \in DOMAIN usersFile.data : \A m \in MinutesOver(u) :
            LET day_plans == DayPlans(usersFile.data[u], Weekday(DateOf(m)))
            IN  \A k \in 1 .. Len(day_plans) :
                   day_plans[k].time = TimeOf(m) =>
                       RemEvent(u, DateOf(m), day_plans[k]) \in DOMAIN rems

\* C4: the evening summary is delivered at most once per profile and local
\* date, only to a set-up profile at the summary time whose last summary
\* date is not today's, and after the send the persisted last summary date
\* is today's date.
C4_SummaryOncePerDate ==
    /\ \A e \in DOMAIN sums :
          /\ sums[e] = 1
          /\ e.setup /\ e.cur = SUMMARY_TIME /\ e.last # e.today
          /\ e.stored = e.today
    /\ \A e1 \in DOMAIN sums, e2 \in DOMAIN sums :
          (e1.u = e2.u /\ e1.today = e2.today) => e1 = e2

\* C5: a profile with no stored notification time never gets a brief.
C5_NoBriefWithoutTime == \A e \in DOMAIN briefs : e.nt # None

\* C5, amended: a profile with no stored notification time gets a brief only
\* in a tick that observes 09:00 local, and only when set up.
C5_BriefWithoutTimeOnlyAtDefault ==
    \A e \in DOMAIN briefs :
        e.nt = None => (e.cur = DEFAULT_NOTIFICATION_TIME /\ e.setup)

\* A brief has gone to a profile with no stored notification time.
C5_DefaultBriefSent == \E e \in DOMAIN briefs : e.nt = None

\* C6: when a tick is over, every profile of the document it loaded has been
\* evaluated, whatever sends failed in it.
C6_RemainingProfilesEvaluated ==
    (sched.pc = "sleep" /\ sched.ran) =>
        \A k \in 1 .. Len(sched.users.order) : k < sched.i

\* C7: the scheduler's loop never exits: it is in a tick or asleep, and when
\* asleep, also after a tick that failed, its next tick is due within the
\* normal interval.
C7_LoopNeverExits ==
    /\ sched.pc \in {"sleep", "briefSend", "remSend", "sumSend"}
    /\ sched.pc = "sleep" => (now <= sched.wake /\ sched.wake <= now + SubMin)

\* A tick is running that started after an exception ended an earlier one,
\* with no restart in between.
C7_TickAfterFailure == restarts = 0 /\ trace.afterFail /\ sched.pc # "sleep"

\* C8: briefs and summaries go to set-up profiles only, and a brief only in
\* a tick that observes the profile's notification time.
C8_OnlyAtStoredTime ==
    /\ \A e \in DOMAIN briefs : e.setup /\ e.cur = e.nt
    /\ \A e \in DOMAIN sums : e.setup

\* C8, amended: briefs and summaries go to set-up profiles only, and a brief
\* only in a tick that observes the profile's notification time, or 09:00
\* when none is stored.
C8_OnlyWhenSetUp ==
    /\ \A e \in DOMAIN briefs :
          e.setup /\ e.cur = (IF e.nt = None THEN DEFAULT_NOTIFICATION_TIME ELSE e.nt)
    /\ \A e \in DOMAIN sums : e.setup

\* A brief at a stored time and a summary have been delivered, and the tick
\* has gone past a profile that is not set up, in the summary's minute.
C8_SetUpGetsNotSetUpSkipped ==
    /\ \E e \in DOMAIN briefs : e.nt # None
    /\ sums # << >>
    /\ \E u \in DOMAIN sched.seen :
          /\ ~sched.users.data[u].setup_complete
          /\ sched.seen[u].cur = SUMMARY_TIME
          /\ Pos(u) < sched.i

\* ------------------------------------------------------------------ text

\* The texts of the keyboard's buttons and the commands, a word standing
\* for its letters: "/plan", "/itog", the short day names (DAYS_SHORT),
\* "Пропустить все", "Готово", "Удалить планы на день", "Пропустить день",
\* "Отмена", "Дополнить", "Изменить", "Продолжить", "Да", "Нет".
CMD_PLAN == <<"/plan">>
CMD_ITOG == <<"/itog">>
DAYS_SHORT == << <<"Pn">>, <<"Vt">>, <<"Sr">>, <<"Ct">>, <<"Pt">>, <<"Sb">>, <<"Vs">> >>
BTN_SKIP_ALL == <<"Propustit", " ", "vse">>
BTN_DONE == <<"Gotovo">>
BTN_DELETE_DAY == <<"Udalit", " ", "plany", " ", "na", " ", "den">>
BTN_SKIP_DAY == <<"Propustit", " ", "den">>
BTN_CANCEL == <<"Otmena">>
BTN_APPEND == <<"Dopolnit">>
BTN_EDIT == <<"Izmenit">>
BTN_CONTINUE == <<"Prodolzhit">>
BTN_YES == <<"D", "a">>
BTN_NO == <<"N", "e", "t">>
\* The buttons of the main menu, "Настроить планы", "Глобальные планы",
\* "Мои планы" and "Часовой пояс", and of the menu of global plans,
\* "Добавить", "Редактировать", "Удалить" and "Назад".
MENU_SETUP == <<"Nastroit", " ", "plany">>
MENU_GLOBAL == <<"Globalnye", " ", "plany">>
MENU_MY_PLANS == <<"Moi", " ", "plany">>
MENU_TIMEZONE == <<"Chasovoi", " ", "poyas">>
BTN_ADD == <<"Dobavit">>
BTN_REDACT == <<"Redaktirovat">>
BTN_DELETE == <<"Udalit">>
BTN_BACK == <<"Nazad">>

IsSpace(c) == c = " "
\* The token sup2 stands for the character SUPERSCRIPT TWO.
SUP2 == "sup2"
\* A character int() reads as a decimal digit.
IsDecimal(c) == \E k \in 1 .. 10 : Digits[k] = c
\* str.isdigit() of one character: true of the superscript too.
IsDigit(c) == IsDecimal(c) \/ c = SUP2
DigitValue(c) == (CHOOSE k \in 1 .. 10 : Digits[k] = c) - 1

RECURSIVE LStrip(_)
LStrip(s) == IF s # << >> /\ IsSpace(Head(s)) THEN LStrip(Tail(s)) ELSE s
RECURSIVE RStrip(_)
RStrip(s) ==
    IF s # << >> /\ IsSpace(s[Len(s)]) THEN RStrip(SubSeq(s, 1, Len(s) - 1)) ELSE s
\* str.strip()
Strip(s) == RStrip(LStrip(s))

\* str.lower()
LowerChar(c) == IF c = "D" THEN "d" ELSE IF c = "N" THEN "n" ELSE c
Lower(s) == [k \in 1 .. Len(s) |-> LowerChar(s[k])]

\* The first position of s that satisfies the test, 0 when there is none.
FirstSep(s) ==
    IF \E k \in 1 .. Len(s) : s[k] = ";"
    THEN CHOOSE k \in 1 .. Len(s) : s[k] = ";" /\ \A m \in 1 .. (k - 1) : s[m] # ";"
    ELSE 0
FirstSpace(s) ==
    IF \E k \in 1 .. Len(s) : IsSpace(s[k])
    THEN CHOOSE k \in 1 .. Len(s) : IsSpace(s[k]) /\ \A m \in 1 .. (k - 1) : ~IsSpace(s[m])
    ELSE 0

\* text.split(';')
RECURSIVE SplitItems(_)
SplitItems(s) ==
    IF FirstSep(s) = 0
    THEN <<s>>
    ELSE <<SubSeq(s, 1, FirstSep(s) - 1)>> \o SplitItems(SubSeq(s, FirstSep(s) + 1, Len(s)))

\* item.split(maxsplit=1) of a stripped, non-empty item
SplitFirst(item) ==
    IF FirstSpace(item) = 0
    THEN <<item>>
    ELSE <<SubSeq(item, 1, FirstSpace(item) - 1),
           LStrip(SubSeq(item, FirstSpace(item) + 1, Len(item)))>>

\* The piece passes the shape test of enter_plans, so that int() is applied
\* to its two halves.
TimeShaped(item) ==
    LET parts == SplitFirst(item)
    IN  /\ Len(parts) = 2
        /\ Len(parts[1]) = 5
        /\ parts[1][3] = ":"
        /\ IsDigit(parts[1][1]) /\ IsDigit(parts[1][2])
        /\ IsDigit(parts[1][4]) /\ IsDigit(parts[1][5])

\* int() raises ValueError on a half that has a character it does not read.
ItemRaises(item) ==
    /\ TimeShaped(item)
    /\ \E k \in {1, 2, 4, 5} : ~IsDecimal(SplitFirst(item)[1][k])

\* The plan item enter_plans makes of one stripped, non-empty piece on which
\* it does not raise.
ParseItem(item) ==
    LET parts == SplitFirst(item)
    IN  IF /\ TimeShaped(item)
           /\ 10 * DigitValue(parts[1][1]) + DigitValue(parts[1][2]) <= 23
           /\ 10 * DigitValue(parts[1][4]) + DigitValue(parts[1][5]) <= 59
        THEN [time |-> parts[1], text |-> parts[2]]
        ELSE [time |-> None, text |-> item]

\* raw_items = [item.strip() for item in text.split(';') if item.strip()],
\* then one plan item for each.
ParsePlans(text) ==
    LET pieces == SplitItems(text)
        raw_items == SelectSeq([k \in 1 .. Len(pieces) |-> Strip(pieces[k])],
                               LAMBDA piece : piece # << >>)
    IN  [k \in 1 .. Len(raw_items) |-> ParseItem(raw_items[k])]

\* The loop of enter_plans raises on one of the pieces.
ParseRaises(text) ==
    LET pieces == SplitItems(text)
    IN  \E k \in 1 .. Len(pieces) :
            Strip(pieces[k]) # << >> /\ ItemRaises(Strip(pieces[k]))

\* The index in DAYS_SHORT of a text, and whether it has one.
IsDayShort(text) == \E k \in 1 .. 7 : DAYS_SHORT[k] = text
DayIndex(text) == (CHOOSE k \in 1 .. 7 : DAYS_SHORT[k] = text) - 1

\* ------------------------------------------------------- update handlers

\* Updates are processed one at a time.  A handler runs from its load_users
\* to its first await in one step; what it does when its awaits return is
\* its todo list, and the state it returns is its ret ("raise" when it ends
\* in an exception, which leaves the conversation where it was).
Outcome(ud, file, users, todo, ret, arg) ==
    [ud |-> ud, file |-> file, users |-> users, todo |-> todo, ret |-> ret,
     arg |-> arg, gfile |-> globalFile]

NoArg == [date |-> NoDate, plans |-> << >>, answer |-> << >>]

\* An exception no handler catches: a KeyError of users[user_id] or of
\* users[user_id]['plans'], a ValueError of int().
Raise(ud, file) == Outcome(ud, file, file, << >>, "raise", NoArg)

HasPlans(doc, uid) == uid \in DOMAIN doc.data /\ doc.data[uid].plans # << >>

SetDay_EveryDay(plans, day, value) == [d \in DOMAIN plans \cup {day} |-> value]

\* plans[day] = value
SetDay(plans, day, value) ==
    [d \in DOMAIN plans \cup {day} |-> IF d = day THEN value ELSE plans[d]]

\* setup_plans, which plan_command ends in.
setup_plans(u, ud, file) ==
    Outcome([ud EXCEPT !.action = "replace", !.deleting_day = FALSE],
            file, file, <<"present">>, "CHOOSING_DAY", NoArg)

choose_day(u, ud, file, message) ==
    LET text == Strip(message)
    IN  IF text = BTN_SKIP_ALL \/ text = BTN_DONE
        THEN IF u \notin DOMAIN file.data
             THEN Raise(ud, file)
             ELSE LET users == PutUser(file, u, [file.data[u] EXCEPT !.setup_complete = TRUE])
                  IN  Outcome(ud, users, users, <<"present_ensure">>, "MAIN_MENU", NoArg)
        ELSE IF text = BTN_DELETE_DAY
        THEN Outcome([ud EXCEPT !.deleting_day = TRUE], file, file,
                     <<"present">>, "CHOOSING_DAY", NoArg)
        ELSE IF ud.deleting_day
        THEN IF ~IsDayShort(text)
             THEN Outcome(ud, file, file, <<"present">>, "CHOOSING_DAY", NoArg)
             ELSE IF ~HasPlans(file, u)
             THEN Raise(ud, file)
             ELSE LET users == PutUser(file, u,
                                 [file.data[u] EXCEPT !.plans = SetDay(@, DayIndex(text), << >>)])
                  IN  Outcome([ud EXCEPT !.deleting_day = FALSE], users, users,
                              <<"present">>, "MAIN_MENU", NoArg)
        ELSE IF ~IsDayShort(text)
        THEN Outcome(ud, file, file, <<"present">>, "CHOOSING_DAY", NoArg)
        ELSE Outcome([ud EXCEPT !.current_day = DayIndex(text), !.skip_day = FALSE],
                     file, file, <<"present">>, "ENTERING_PLANS", NoArg)

\* review_plans, which enter_plans ends in.
review_plans(u, ud, file) ==
    IF ud.skip_day /\ ~HasPlans(file, u)
    THEN Raise(ud, file)
    ELSE Outcome(ud, file, file, <<"present">>, "REVIEW_PLANS", NoArg)

enter_plans_SavesAtOnce(u, ud, file, message) ==
    LET text == Strip(message)
        users == IF HasPlans(file, u)
                 THEN PutUser(file, u, [file.data[u] EXCEPT
                                           !.plans = SetDay(@, ud.current_day, ParsePlans(text))])
                 ELSE file
    IN  IF text = BTN_CANCEL
        THEN Outcome(ud, file, file, <<"present">>, "MAIN_MENU", NoArg)
        ELSE IF text = BTN_SKIP_DAY
        THEN review_plans(u, [ud EXCEPT !.current_plans = << >>, !.skip_day = TRUE], file)
        ELSE IF ParseRaises(text)
        THEN Raise(ud, file)
        ELSE review_plans(u, [ud EXCEPT !.current_plans = ParsePlans(text),
                                        !.skip_day = FALSE], users)

enter_plans(u, ud, file, message) ==
    LET text == Strip(message)
    IN  IF text = BTN_CANCEL
        THEN Outcome(ud, file, file, <<"present">>, "MAIN_MENU", NoArg)
        ELSE IF text = BTN_SKIP_DAY
        THEN review_plans(u, [ud EXCEPT !.current_plans = << >>, !.skip_day = TRUE], file)
        ELSE IF ParseRaises(text)
        THEN Raise(ud, file)
        ELSE review_plans(u, [ud EXCEPT !.current_plans = ParsePlans(text),
                                        !.skip_day = FALSE], file)

CommitPlans_IntoSnapshot(user, ud) ==
    [user EXCEPT !.plans = SetDay(@, ud.current_day, ud.current_plans),
                 !.itog_state.plans = ud.current_plans]

\* The day's list after "Продолжить".
CommitPlans(user, ud) ==
    IF ud.action = "supplement" /\ ud.current_plans # << >>
    THEN [user EXCEPT !.plans[ud.current_day] = @ \o ud.current_plans]
    ELSE [user EXCEPT !.plans = SetDay(@, ud.current_day, ud.current_plans)]

handle_review_action_CommitsSkipped(u, ud, file, message) ==
    LET text == Strip(message)
    IN  IF text = BTN_APPEND
        THEN Outcome([ud EXCEPT !.action = "supplement"], file, file,
                     <<"present">>, "ENTERING_PLANS", NoArg)
        ELSE IF text = BTN_EDIT
        THEN Outcome([ud EXCEPT !.action = "replace"], file, file,
                     <<"present">>, "ENTERING_PLANS", NoArg)
        ELSE IF text = BTN_CONTINUE
        THEN IF ~HasPlans(file, u)
             THEN Raise(ud, file)
             ELSE LET users == PutUser(file, u, CommitPlans(file.data[u], ud))
                  IN  Outcome([ud EXCEPT !.action = "replace", !.skip_day = FALSE],
                              users, users, <<"present">>, "CHOOSING_DAY", NoArg)
        ELSE Outcome(ud, file, file, << >>, "REVIEW_PLANS", NoArg)

handle_review_action(u, ud, file, message) ==
    LET text == Strip(message)
    IN  IF text = BTN_APPEND
        THEN Outcome([ud EXCEPT !.action = "supplement"], file, file,
                     <<"present">>, "ENTERING_PLANS", NoArg)
        ELSE IF text = BTN_EDIT
        THEN Outcome([ud EXCEPT !.action = "replace"], file, file,
                     <<"present">>, "ENTERING_PLANS", NoArg)
        ELSE IF text = BTN_CONTINUE
        THEN IF ud.skip_day
             THEN Outcome([ud EXCEPT !.action = "replace", !.skip_day = FALSE],
                          file, file, <<"present">>, "CHOOSING_DAY", NoArg)
             ELSE IF ~HasPlans(file, u)
             THEN Raise(ud, file)
             ELSE LET users == PutUser(file, u, CommitPlans(file.data[u], ud))
                  IN  Outcome([ud EXCEPT !.action = "replace", !.skip_day = FALSE],
                              users, users, <<"present">>, "CHOOSING_DAY", NoArg)
        ELSE Outcome(ud, file, file, << >>, "REVIEW_PLANS", NoArg)

\* ------------------------------------------------------ notification time

\* text.split(':') has exactly two parts, which are TimeParts: the text has
\* one colon.
OneColon(text) == Cardinality({k \in 1 .. Len(text) : text[k] = ":"}) = 1
TimeParts(text) ==
    LET colon == CHOOSE k \in 1 .. Len(text) : text[k] = ":"
    IN  <<SubSeq(text, 1, colon - 1), SubSeq(text, colon + 1, Len(text))>>

\* What int() reads of a string: blanks around it and one sign before it are
\* allowed, and the rest is decimal digits, with single underscores between.
IntBody(s) ==
    IF Strip(s) # << >> /\ Head(Strip(s)) \in {"+", "-"} THEN Tail(Strip(s)) ELSE Strip(s)
IntReads(s) ==
    /\ IntBody(s) # << >>
    /\ \A k \in 1 .. Len(IntBody(s)) :
          \/ IsDecimal(IntBody(s)[k])
          \/ /\ IntBody(s)[k] = "_"
             /\ 1 < k /\ k < Len(IntBody(s))
             /\ IsDecimal(IntBody(s)[k - 1]) /\ IsDecimal(IntBody(s)[k + 1])
RECURSIVE DecimalValue(_)
DecimalValue(b) ==
    IF b = << >> THEN 0
    ELSE IF b[Len(b)] = "_" THEN DecimalValue(SubSeq(b, 1, Len(b) - 1))
    ELSE 10 * DecimalValue(SubSeq(b, 1, Len(b) - 1)) + DigitValue(b[Len(b)])
IntOf(s) == IF Head(Strip(s)) = "-" THEN 0 - DecimalValue(IntBody(s)) ELSE DecimalValue(IntBody(s))

TimeReads_AnyMinute(text) ==
    /\ OneColon(text)
    /\ IntReads(TimeParts(text)[1]) /\ IntReads(TimeParts(text)[2])
    /\ 0 <= IntOf(TimeParts(text)[1]) /\ IntOf(TimeParts(text)[1]) <= 23
    /\ 0 <= IntOf(TimeParts(text)[2]) /\ IntOf(TimeParts(text)[2]) <= 99

\* The try block of handle_time_input gets to the assignment.
TimeReads(text) ==
    /\ OneColon(text)
    /\ IntReads(TimeParts(text)[1]) /\ IntReads(TimeParts(text)[2])
    /\ 0 <= IntOf(TimeParts(text)[1]) /\ IntOf(TimeParts(text)[1]) <= 23
    /\ 0 <= IntOf(TimeParts(text)[2]) /\ IntOf(TimeParts(text)[2]) <= 59

\* f"{hour:02d}:{minute:02d}", of an hour and a minute below 100
TimeText(text) ==
    Fmt02(IntOf(TimeParts(text)[1])) \o <<":">> \o Fmt02(IntOf(TimeParts(text)[2]))

\* handle_time_input, which main_menu calls while waiting_for_time is set.
handle_time_input_GivesUp(u, ud, file, message) ==
    LET text == Strip(message)
    IN  IF ~ud.waiting_for_time
        THEN Outcome(ud, file, file, <<"present">>, "MAIN_MENU", NoArg)
        ELSE IF ~TimeReads(text)
        THEN Outcome([ud EXCEPT !.waiting_for_time = FALSE], file, file,
                     <<"present">>, "MAIN_MENU", NoArg)
        ELSE IF u \notin DOMAIN file.data
        THEN Raise(ud, file)
        ELSE LET users == PutUser(file, u,
                              [file.data[u] EXCEPT !.notification_time = TimeText(text)])
             IN  Outcome([ud EXCEPT !.waiting_for_time = FALSE], users, users,
                         <<"present">>, "MAIN_MENU", NoArg)

handle_time_input(u, ud, file, message) ==
    LET text == Strip(message)
    IN  IF ~ud.waiting_for_time
        THEN Outcome(ud, file, file, <<"present">>, "MAIN_MENU", NoArg)
        ELSE IF ~TimeReads(text)
        THEN Outcome(ud, file, file, <<"present">>, "MAIN_MENU", NoArg)
        ELSE IF u \notin DOMAIN file.data
        THEN Raise(ud, file)
        ELSE LET users == PutUser(file, u,
                              [file.data[u] EXCEPT !.notification_time = TimeText(text)])
             IN  Outcome([ud EXCEPT !.waiting_for_time = FALSE], users, users,
                         <<"present">>, "MAIN_MENU", NoArg)

\* ----------------------------------------------------------- global plans

\* global_plans.get(user_id, [])
GlobalOf(gfile, u) == IF u \in DOMAIN gfile THEN gfile[u] ELSE << >>

\* global_plans[user_id] = value
PutGlobal(gfile, u, value) == [w \in DOMAIN gfile \cup {u} |-> IF w = u THEN value ELSE gfile[w]]

\* del global_plans[user_id]
DelGlobal(gfile, u) == [w \in DOMAIN gfile \ {u} |-> gfile[w]]

global_plans_menu(u, ud, file) ==
    Outcome(ud, file, file, <<"present">>, "GLOBAL_MENU", NoArg)

\* user_id in global_plans
HasGlobalEntry(gfile, u) == u \in DOMAIN gfile

\* The two reports of "Удалить" are the awaits say_cleared and say_nothing.
handle_global_action(u, ud, file, gfile, message) ==
    LET text == Strip(message)
    IN  IF text = BTN_ADD
        THEN Outcome([ud EXCEPT !.global_action = "add"], file, file,
                     <<"present">>, "ENTERING_GLOBAL_PLANS", NoArg)
        ELSE IF text = BTN_REDACT
        THEN Outcome([ud EXCEPT !.global_action = "replace"], file, file,
                     <<"present">>, "ENTERING_GLOBAL_PLANS", NoArg)
        ELSE IF text = BTN_DELETE
        THEN IF HasGlobalEntry(gfile, u)
             THEN [Outcome(ud, file, file, <<"say_cleared", "present">>, "MAIN_MENU", NoArg)
                      EXCEPT !.gfile = DelGlobal(gfile, u)]
             ELSE Outcome(ud, file, file, <<"say_nothing", "present">>, "MAIN_MENU", NoArg)
        ELSE IF text = BTN_BACK
        THEN Outcome(ud, file, file, <<"present">>, "MAIN_MENU", NoArg)
        ELSE Outcome(ud, file, file, << >>, "GLOBAL_MENU", NoArg)

\* new_plans = [plan.strip() for plan in text.split(';') if plan.strip()]
GlobalItems(text) ==
    LET pieces == SplitItems(text)
    IN  SelectSeq([k \in 1 .. Len(pieces) |-> Strip(pieces[k])], LAMBDA piece : piece # << >>)

enter_global_plans(u, ud, file, gfile, message) ==
    LET new_plans == GlobalItems(Strip(message))
    IN  [Outcome(ud, file, file, <<"present">>, "MAIN_MENU", NoArg)
            EXCEPT !.gfile = IF ud.global_action = "add"
                             THEN PutGlobal(gfile, u, GlobalOf(gfile, u) \o new_plans)
                             ELSE PutGlobal(gfile, u, new_plans)]

\* -------------------------------------------------------------- main menu

timezone_command(u, ud, file) ==
    IF u \notin DOMAIN file.data
    THEN Outcome(ud, file, file, <<"present">>, "MAIN_MENU", NoArg)
    ELSE Outcome([ud EXCEPT !.choosing_timezone = TRUE], file, file,
                 <<"present">>, "MAIN_MENU", NoArg)

main_menu(u, ud, file, message) ==
    IF ud.waiting_for_time
    THEN handle_time_input(u, ud, file, message)
    ELSE IF ud.choosing_timezone
    THEN LET tz == Strip(message)
         IN  IF Len(tz) = 1 /\ tz[1] \in TIMEZONES
             THEN LET users == IF u \in DOMAIN file.data
                               THEN PutUser(file, u, [file.data[u] EXCEPT !.timezone = tz[1]])
                               ELSE file
                  IN  Outcome([ud EXCEPT !.choosing_timezone = FALSE], users, users,
                              <<"present">>, "MAIN_MENU", NoArg)
             ELSE Outcome(ud, file, file, <<"present">>, "MAIN_MENU", NoArg)
    ELSE IF message = MENU_SETUP
    THEN setup_plans(u, ud, file)
    ELSE IF message = MENU_GLOBAL
    THEN global_plans_menu(u, ud, file)
    ELSE IF message = MENU_MY_PLANS
    THEN Outcome(ud, file, file, <<"present">>, "MAIN_MENU", NoArg)
    ELSE IF message = MENU_TIMEZONE
    THEN timezone_command(u, ud, file)
    ELSE Outcome(ud, file, file, <<"present">>, "MAIN_MENU", NoArg)

\* ------------------------------------------------------------------ itog

\* remaining = [plan for idx, plan in enumerate(snapshot) if idx not in completed]
Remaining(snapshot, completed) ==
    LET keep[k \in 0 .. Len(snapshot)] ==
            IF k = 0 THEN << >>
            ELSE IF (k - 1) \in completed THEN keep[k - 1]
            ELSE Append(keep[k - 1], snapshot[k])
    IN  keep[Len(snapshot)]

\* apply_itog_results_to_plans; a day name is never empty.
apply_itog_results_to_plans(user, state) ==
    IF state.plans = << >> \/ state.completed = {}
    THEN user
    ELSE [user EXCEPT !.plans = SetDay(@, state.day_name,
                                       Remaining(state.plans, state.completed))]

\* What a completed session leaves in the history: the session (the id of
\* its list message) with its snapshot and completed positions, the day's
\* list in the profile the handler completes it in (loaded), in the persisted
\* profile just before the write (stored) and after it (result), and whether
\* the write left the other days alone and cleared the session.
ItogEvent(u, state, loaded, before, after) ==
    [u |-> u,
     sid |-> state.list_message_id,
     day |-> state.day_name,
     snapshot |-> state.plans,
     completed |-> state.completed,
     live |-> DayPlans(GetUser(loaded, u), state.day_name),
     stored |-> DayPlans(GetUser(before, u), state.day_name),
     result |-> DayPlans(GetUser(after, u), state.day_name),
     others |-> \A d \in DAYS_OF_WEEK \ {state.day_name} :
                   DayPlans(GetUser(loaded, u), d) = DayPlans(GetUser(after, u), d),
     cleared |-> ~GetUser(after, u).itog_state.active]

\* The profile and the document once the session state has been applied to
\* the handler's copy and cleared.
CompleteItog(users, u, state) ==
    PutUser(users, u,
            [apply_itog_results_to_plans(users.data[u], state) EXCEPT !.itog_state = NoItog])

start_itog_AlwaysBegins(u, ud, file, t) ==
    IF u \notin DOMAIN file.data
    THEN Outcome(ud, file, file, <<"present">>, "MAIN_MENU", NoArg)
    ELSE LET today == DateOf(get_user_now(file.data[u], t))
         IN  Outcome(ud, file, file, <<"itog_begin">>, "ITOG_REVIEW",
                     [NoArg EXCEPT !.date = today,
                                   !.plans = DayPlans(file.data[u], Weekday(today))])

start_itog(u, ud, file, t) ==
    IF u \notin DOMAIN file.data
    THEN Outcome(ud, file, file, <<"present">>, "MAIN_MENU", NoArg)
    ELSE LET user == file.data[u]
             today == DateOf(get_user_now(user, t))
             today_plans == DayPlans(user, Weekday(today))
         IN  IF today_plans = << >>
             THEN Outcome(ud, file, file, <<"present">>, "MAIN_MENU", NoArg)
             ELSE Outcome(ud, file, file, <<"itog_begin">>, "ITOG_REVIEW",
                          [NoArg EXCEPT !.date = today, !.plans = today_plans])

handle_itog_response_StaysInReview(u, ud, file, message) ==
    IF u \notin DOMAIN file.data \/ ~file.data[u].itog_state.active
    THEN Outcome(ud, file, file, <<"say_not_active">>, "ITOG_REVIEW", NoArg)
    ELSE Outcome(ud, file, file, <<"itog_answer">>, "ITOG_REVIEW",
                 [NoArg EXCEPT !.answer = Lower(Strip(message))])

\* handle_itog_response up to its first await.
handle_itog_response(u, ud, file, message) ==
    IF u \notin DOMAIN file.data \/ ~file.data[u].itog_state.active
    THEN Outcome(ud, file, file, <<"say_not_active">>, "MAIN_MENU", NoArg)
    ELSE LET state == file.data[u].itog_state
         IN  IF state.plans = << >>
             THEN LET users == PutUser(file, u, [file.data[u] EXCEPT !.itog_state = NoItog])
                  IN  Outcome(ud, users, users, <<"say_no_plans">>, "MAIN_MENU", NoArg)
             ELSE IF state.current_index >= Len(state.plans)
             THEN Outcome(ud, file, file, <<"itog_over">>, "MAIN_MENU", NoArg)
             ELSE Outcome(ud, file, file, <<"itog_answer">>, "ITOG_REVIEW",
                          [NoArg EXCEPT !.answer = Lower(Strip(message))])

\* ------------------------------------------------------- /start and /day

start_WithMorningTime(u, ud, file) ==
    LET users == IF u \notin DOMAIN file.data
                 THEN PutUser(file, u, [NewUser EXCEPT
                                           !.notification_time = DEFAULT_NOTIFICATION_TIME])
                 ELSE file
    IN  Outcome(ud, users, users, <<"welcome">>, "MAIN_MENU", NoArg)

start_StartsAfresh(u, ud, file) ==
    LET users == PutUser(file, u, NewUser)
    IN  Outcome(ud, users, users, <<"welcome">>, "MAIN_MENU", NoArg)

\* start up to its welcome: a new user gets a record, a record that lacks a
\* key gets the key's default.
start(u, ud, file) ==
    LET users == IF u \notin DOMAIN file.data
                 THEN PutUser(file, u, NewUser)
                 ELSE IF file.data[u].plans = << >>
                 THEN PutUser(file, u, [file.data[u] EXCEPT !.plans = NewUser.plans])
                 ELSE file
    IN  Outcome(ud, users, users, <<"welcome">>, "MAIN_MENU", NoArg)

\* The parts of a text between its dots.
RECURSIVE SplitDots(_)
SplitDots(s) ==
    IF \A k \in 1 .. Len(s) : s[k] # "."
    THEN <<s>>
    ELSE LET k == CHOOSE j \in 1 .. Len(s) :
                      s[j] = "." /\ \A i \in 1 .. j - 1 : s[i] # "."
         IN  <<SubSeq(s, 1, k - 1)>> \o SplitDots(SubSeq(s, k + 1, Len(s)))

DaysIn(month, year) ==
    IF month = 2
    THEN IF year % 4 = 0 /\ (year % 100 # 0 \/ year % 400 = 0) THEN 29 ELSE 28
    ELSE IF month \in {4, 6, 9, 11} THEN 30 ELSE 31

\* datetime.strptime(date_text, "%d.%m.%Y") returns: one or two digits for
\* the day and for the month, four for the year, and a date that exists.
DateReads(date_text) ==
    LET parts == SplitDots(date_text)
        Digits12(part) == Len(part) \in 1 .. 2 /\ \A k \in 1 .. Len(part) : IsDecimal(part[k])
    IN  /\ Len(parts) = 3
        /\ Digits12(parts[1]) /\ Digits12(parts[2])
        /\ Len(parts[3]) = 4 /\ \A k \in 1 .. 4 : IsDecimal(parts[3][k])
        /\ DecimalValue(parts[3]) >= 1
        /\ DecimalValue(parts[2]) \in 1 .. 12
        /\ DecimalValue(parts[1]) \in 1 .. DaysIn(DecimalValue(parts[2]), DecimalValue(parts[3]))

\* day_command, which leaves the conversation in its state, held in ret; args
\* is context.args.
day_command(u, ud, file, ret, args) ==
    IF u \notin DOMAIN file.data
    THEN Outcome(ud, file, file, <<"say_start_first">>, ret, NoArg)
    ELSE IF args = << >>
    THEN Outcome(ud, file, file, <<"say_usage">>, ret, NoArg)
    ELSE IF ~DateReads(args[1])
    THEN Outcome(ud, file, file, <<"say_bad_date">>, ret, NoArg)
    ELSE Outcome(ud, file, file, <<"show_day">>, ret, NoArg)

\* ---------------------------------------------------- a handler's awaits

\* What the handler in flight does when its await returns, up to its next
\* await or its return: the document it saves (file), its own copy (users),
\* what is left to do, the state it will return, the message ids it has used
\* and the events it logs.
Step(file, users, todo, ret, ids, ud, log) ==
    [file |-> file, users |-> users, todo |-> todo, ret |-> ret, ids |-> ids,
     ud |-> ud, log |-> log, tally |-> << >>]

\* send_and_replace from its reply on: the id of the reply goes into the
\* handler's copy of the document, which is saved.
Presented(h, id) ==
    PutUser(h.users, h.uid, [GetUser(h.users, h.uid) EXCEPT !.last_bot_message_id = id])

AfterPresent(h, ud, id) ==
    Step(Presented(h, id), Presented(h, id), Tail(h.todo), h.ret, 1, ud, << >>)

AfterPresentEnsure_PromptsAgain(h, ud, id) ==
    LET users == Presented(h, id)
    IN  IF users.data[h.uid].notification_time = None
        THEN Step(users, users, <<"present">>, h.ret, 1,
                  [ud EXCEPT !.waiting_for_time = TRUE], << >>)
        ELSE Step(users, users, << >>, h.ret, 1, ud, << >>)

\* send_and_replace, then ensure_notification_time with the handler's copy
\* of the profile: prompt_notification_time loads the document anew.
AfterPresentEnsure(h, ud, id) ==
    LET users == Presented(h, id)
    IN  IF users.data[h.uid].notification_time = None /\ ~ud.waiting_for_time
        THEN Step(users, users, <<"present">>, h.ret, 1,
                  [ud EXCEPT !.waiting_for_time = TRUE], << >>)
        ELSE Step(users, users, << >>, h.ret, 1, ud, << >>)

\* start_itog from its two sends on.
AfterItogBegin(h, ud, id) ==
    LET state == [active |-> TRUE, date |-> h.arg.date,
                  day_name |-> Weekday(h.arg.date), plans |-> h.arg.plans,
                  current_index |-> 0, completed |-> {},
                  list_message_id |-> id, question_message_id |-> id + 1]
        users == PutUser(h.users, h.uid, [h.users.data[h.uid] EXCEPT !.itog_state = state])
    IN  Step(users, users, << >>, "ITOG_REVIEW", 2, ud, << >>)

Tally_CountsAnswered(state) == <<state.current_index, Len(state.plans)>>

\* completed_count and total of the closing message.
Tally(state) == <<Cardinality(state.completed), Len(state.plans)>>

AfterItogAnswer_KeepsSession(h, ud, id, before) ==
    LET user == h.users.data[h.uid]
        state == [user.itog_state EXCEPT !.current_index = @ + 1,
                                         !.question_message_id = id]
        users == PutUser(h.users, h.uid, [user EXCEPT !.itog_state = state])
    IN  Step(users, users, << >>, "ITOG_REVIEW", 1, ud, << >>)

AfterItogAnswer_ForgetsEarlier(h, ud, id, before) ==
    LET user == h.users.data[h.uid]
        old == user.itog_state
        state == [old EXCEPT !.completed = IF h.arg.answer = Lower(BTN_YES)
                                           THEN {old.current_index} ELSE @,
                             !.current_index = @ + 1]
    IN  IF state.current_index >= Len(state.plans)
        THEN LET users == CompleteItog(h.users, h.uid, state)
             IN  [Step(users, users, <<"present", "present">>, "MAIN_MENU", 0, ud,
                       <<ItogEvent(h.uid, state, h.users, before, users)>>)
                  EXCEPT !.tally = Tally(state)]
        ELSE LET users == PutUser(h.users, h.uid,
                              [user EXCEPT !.itog_state =
                                  [state EXCEPT !.question_message_id = id]])
             IN  Step(users, users, << >>, "ITOG_REVIEW", 1, ud, << >>)

\* handle_itog_response from the answer on; before is the persisted document.
AfterItogAnswer(h, ud, id, before) ==
    LET user == h.users.data[h.uid]
        old == user.itog_state
        state == [old EXCEPT !.completed = IF h.arg.answer = Lower(BTN_YES)
                                           THEN @ \cup {old.current_index} ELSE @,
                             !.current_index = @ + 1]
    IN  IF state.current_index >= Len(state.plans)
        THEN LET users == CompleteItog(h.users, h.uid, state)
             IN  [Step(users, users, <<"present", "present">>, "MAIN_MENU", 0, ud,
                       <<ItogEvent(h.uid, state, h.users, before, users)>>)
                  EXCEPT !.tally = Tally(state)]
        ELSE LET users == PutUser(h.users, h.uid,
                              [user EXCEPT !.itog_state =
                                  [state EXCEPT !.question_message_id = id]])
             IN  Step(users, users, << >>, "ITOG_REVIEW", 1, ud, << >>)

\* handle_itog_response, when every item had been answered already, from
\* cleanup_itog_state on.
AfterItogOver(h, ud, id, before) ==
    LET state == h.users.data[h.uid].itog_state
        users == CompleteItog(h.users, h.uid, state)
    IN  Step(users, users, <<"present", "present">>, "MAIN_MENU", 0, ud,
             <<ItogEvent(h.uid, state, h.users, before, users)>>)

\* start from its welcome on: ensure_notification_time with the record start
\* holds; prompt_notification_time loads the document anew.
AfterWelcome(h, ud, id, before) ==
    IF GetUser(h.users, h.uid).notification_time = None /\ ~ud.waiting_for_time
    THEN Step(before, before, <<"present">>, h.ret, 1,
              [ud EXCEPT !.waiting_for_time = TRUE], << >>)
    ELSE Step(before, before, << >>, h.ret, 1, ud, << >>)

\* The awaits that are one call of send_and_replace and nothing after it.
Replies == {"present", "say_cleared", "say_nothing", "say_start_first", "say_usage",
            "say_bad_date", "show_day", "say_not_active", "say_no_plans"}

AfterAwait(h, ud, id, before) ==
    CASE Head(h.todo) \in Replies -> AfterPresent(h, ud, id)
      [] Head(h.todo) = "welcome" -> AfterWelcome(h, ud, id, before)
      [] Head(h.todo) = "present_ensure" -> AfterPresentEnsure(h, ud, id)
      [] Head(h.todo) = "itog_begin" -> AfterItogBegin(h, ud, id)
      [] Head(h.todo) = "itog_answer" -> AfterItogAnswer(h, ud, id, before)
      [] Head(h.todo) = "itog_over" -> AfterItogOver(h, ud, id, before)

RECURSIVE LoggedAll(_, _)
LoggedAll(bag, events) ==
    IF events = << >> THEN bag ELSE LoggedAll(Logged(bag, Head(events)), Tail(events))

\* ------------------------------------------------- the messages in a chat

\* The record of the chats: the bot's messages each user still sees, what
\* the handler that runs has deleted and sent, in order, and whether every
\* deletion so far has succeeded.
NoChat == [shown |-> [u \in UserIds |-> {}], events |-> << >>, clean |-> TRUE]

\* A message of the bot arrives in u's chat; via tells who sent it.
Sent(c, u, id, via) ==
    [c EXCEPT !.shown[u] = @ \cup {[id |-> id, via |-> via]},
              !.events = Append(@, [op |-> "send", id |-> id, via |-> via])]

\* delete_message_safe, and the try block of send_and_replace: no attempt
\* without an id, and a failure is logged only.
Deleted(c, u, id, ok) ==
    IF id = 0
    THEN c
    ELSE [c EXCEPT !.shown[u] = IF ok THEN {m \in @ : m.id # id} ELSE @,
                   !.events = Append(@, [op |-> "delete", id |-> id, ok |-> ok]),
                   !.clean = @ /\ ok]

Replaced_WithoutDeleting(c, h, id, ok) == Sent(c, h.uid, id, "send_and_replace")

Replaced_SentIfDeleted(c, h, id, ok) ==
    LET tried == Deleted(c, h.uid, GetUser(h.users, h.uid).last_bot_message_id, ok)
    IN  IF ok THEN Sent(tried, h.uid, id, "send_and_replace") ELSE tried

\* send_and_replace in the chat: the message the handler's copy of the
\* profile records is deleted, or not, and then the new one is sent.
Replaced(c, h, id, ok) ==
    Sent(Deleted(c, h.uid, GetUser(h.users, h.uid).last_bot_message_id, ok),
         h.uid, id, "send_and_replace")

cleanup_itog_state_DeletesNothing(c, u, state, keep_list, oks) == c

\* cleanup_itog_state
cleanup_itog_state(c, u, state, keep_list, oks) ==
    LET asked == Deleted(c, u, state.question_message_id, oks[1])
    IN  IF keep_list THEN asked ELSE Deleted(asked, u, state.list_message_id, oks[2])

\* What the await of handler h that returns does to the chats; oks tells
\* which of its deletions succeed.
ChatAfter(c, h, id, oks) ==
    LET state == GetUser(h.users, h.uid).itog_state
    IN  CASE Head(h.todo) \in Replies \cup {"present_ensure"} -> Replaced(c, h, id, oks[1])
          [] Head(h.todo) = "welcome" -> Sent(c, h.uid, id, "reply_text")
          [] Head(h.todo) = "itog_begin" ->
                Sent(Sent(IF state.active
                          THEN cleanup_itog_state(c, h.uid, state, FALSE, oks)
                          ELSE c,
                          h.uid, id, "reply_text"),
                     h.uid, id + 1, "send_itog_question")
          [] Head(h.todo) = "itog_answer" ->
                IF state.current_index + 1 >= Len(state.plans)
                THEN Deleted(c, h.uid, state.question_message_id, oks[1])
                ELSE Sent(Deleted(c, h.uid, state.question_message_id, oks[1]),
                          h.uid, id, "send_itog_question")
          [] Head(h.todo) = "itog_over" -> cleanup_itog_state(c, h.uid, state, TRUE, oks)

\* --------------------------------------------------------------- updates

\* Message ids Telegram may have handed out when an update arrives.
MaxMsgId == 10

\* What the history keeps of the handler called name, which u's message
\* started and which has come to outcome out: what the handler found, what
\* it has awaited, and what it left when it returned (done) or, until then,
\* at its last await.
Observed(name, u, message, out) ==
    [kind |-> name, u |-> u, message |-> message, conv |-> conv[u], ud |-> udata[u],
     before |-> usersFile, gbefore |-> globalFile, t |-> now, awaited |-> << >>,
     done |-> out.todo = << >>, ret |-> out.ret, after |-> out.file,
     ud_after |-> out.ud, gafter |-> out.gfile, tally |-> << >>,
     answers |-> answers[u]]

\* An update for the handler called name, with outcome out: the handler runs
\* up to its first await, or to its return when it awaits nothing.
Handle(u, name, message, out) ==
    /\ ~inflight.active
    /\ nextId <= MaxMsgId
    /\ udata' = [udata EXCEPT ![u] = out.ud]
    /\ usersFile' = out.file
    /\ IF out.todo = << >>
       THEN /\ inflight' = Idle
            /\ conv' = IF out.ret = "raise" THEN conv ELSE [conv EXCEPT ![u] = out.ret]
       ELSE /\ inflight' = [active |-> TRUE, uid |-> u, users |-> out.users,
                            todo |-> out.todo, ret |-> out.ret, arg |-> out.arg]
            /\ conv' = conv
    /\ globalFile' = out.gfile
    /\ last' = IF last = Unobserved THEN last ELSE Observed(name, u, message, out)
    /\ chat' = IF chat = Unobserved THEN chat ELSE [chat EXCEPT !.events = << >>]
    /\ UNCHANGED <<now, base, sched, restarts, briefs, rems, sums, trace, nextId, itogs,
                   answers>>

\* /plan: an entry point, a handler of every state and a fallback.
PlanCommand(u) == Handle(u, "plan_command", CMD_PLAN, setup_plans(u, udata[u], usersFile))

\* /itog: an entry point, a handler of every state and a fallback.
StartItog(u) == Handle(u, "start_itog", CMD_ITOG, start_itog(u, udata[u], usersFile, now))

\* A text that is no command, in CHOOSING_DAY.
ChooseDay(u, message) ==
    /\ conv[u] = "CHOOSING_DAY"
    /\ Handle(u, "choose_day", message, choose_day(u, udata[u], usersFile, message))

\* A text that is no command, in ENTERING_PLANS.
EnterPlans(u, message) ==
    /\ conv[u] = "ENTERING_PLANS"
    /\ Handle(u, "enter_plans", message, enter_plans(u, udata[u], usersFile, message))

\* A text that is no command, in REVIEW_PLANS.
HandleReviewAction(u, message) ==
    /\ conv[u] = "REVIEW_PLANS"
    /\ Handle(u, "handle_review_action", message,
              handle_review_action(u, udata[u], usersFile, message))

ItogAnswerFilter_AnyText(message) == TRUE

\* filters.Regex("^(Да|Нет)$"): the pattern is matched as it is written, the
\* case of its letters included.
ItogAnswerFilter(message) == message \in {BTN_YES, BTN_NO}

\* A text that matches ^(Да|Нет)$, in ITOG_REVIEW.
HandleItogResponse(u, message) ==
    /\ conv[u] = "ITOG_REVIEW"
    /\ ItogAnswerFilter(message)
    /\ Handle(u, "handle_itog_response", message,
              handle_itog_response(u, udata[u], usersFile, message))

\* A text that is no command and does not match, in ITOG_REVIEW: the state
\* has no other handler and the fallbacks are commands, so that the update
\* runs no handler and the conversation stays where it is.
Unhandled(u, message) ==
    /\ conv[u] = "ITOG_REVIEW"
    /\ ~ItogAnswerFilter(message)
    /\ Handle(u, "unhandled", message,
              Outcome(udata[u], usersFile, usersFile, << >>, conv[u], NoArg))

\* A text that is no command, in MAIN_MENU.
MainMenu(u, message) ==
    /\ conv[u] = "MAIN_MENU"
    /\ Handle(u, "main_menu", message, main_menu(u, udata[u], usersFile, message))

\* A text that is no command, in GLOBAL_MENU.
HandleGlobalAction(u, message) ==
    /\ conv[u] = "GLOBAL_MENU"
    /\ Handle(u, "handle_global_action", message,
              handle_global_action(u, udata[u], usersFile, globalFile, message))

\* A text that is no command, in ENTERING_GLOBAL_PLANS.
EnterGlobalPlans(u, message) ==
    /\ conv[u] = "ENTERING_GLOBAL_PLANS"
    /\ Handle(u, "enter_global_plans", message,
              enter_global_plans(u, udata[u], usersFile, globalFile, message))

\* /start: an entry point and a fallback.
Start(u) == Handle(u, "start", <<"/start">>, start(u, udata[u], usersFile))

\* /day, which the application handles before the conversation sees it.
DayCommand(u, args) ==
    Handle(u, "day_command", args, day_command(u, udata[u], usersFile, conv[u], args))

\* /timezone, which the application handles before the conversation sees
\* it: what the handler returns changes no conversation.
TimezoneCommand(u) ==
    Handle(u, "timezone_command", <<"/timezone">>,
           [timezone_command(u, udata[u], usersFile) EXCEPT !.ret = conv[u]])

\* The await of the handler in flight returns; oks tells which of the
\* deletions it has attempted succeeded.
ResumeWith(oks) ==
    /\ inflight.active
    /\ LET step == AfterAwait(inflight, udata[inflight.uid], nextId, usersFile)
       IN  /\ usersFile' = step.file
           /\ nextId' = nextId + step.ids
           /\ udata' = [udata EXCEPT ![inflight.uid] = step.ud]
           /\ itogs' = LoggedAll(itogs, step.log)
           /\ answers' = IF last = Unobserved THEN answers
                         ELSE IF Head(inflight.todo) = "itog_begin"
                         THEN [answers EXCEPT ![inflight.uid] = << >>]
                         ELSE IF Head(inflight.todo) = "itog_answer"
                         THEN [answers EXCEPT ![inflight.uid] = Append(@, last.message)]
                         ELSE answers
           /\ last' = IF last = Unobserved THEN last
                      ELSE [last EXCEPT !.awaited = Append(@, Head(inflight.todo)),
                                        !.done = step.todo = << >>,
                                        !.ret = step.ret,
                                        !.after = step.file,
                                        !.ud_after = step.ud,
                                        !.tally = IF step.tally = << >> THEN @ ELSE step.tally,
                                        !.answers = answers'[inflight.uid]]
           /\ IF step.todo = << >>
              THEN /\ inflight' = Idle
                   /\ conv' = [conv EXCEPT ![inflight.uid] = step.ret]
              ELSE /\ inflight' = [inflight EXCEPT !.users = step.users, !.todo = step.todo,
                                                   !.ret = step.ret]
                   /\ conv' = conv
    /\ chat' = IF chat = Unobserved THEN chat ELSE ChatAfter(chat, inflight, nextId, oks)
    /\ UNCHANGED <<now, base, sched, restarts, briefs, rems, sums, trace, globalFile>>

\* The same, when Telegram deletes what it is asked to.
Resume == ResumeWith(<<TRUE, TRUE>>)

\* ------------------------------------------------- the evening's review

\* The users who write to the bot, and what they write.
Writers == {"u1"}
DayTexts == {DAYS_SHORT[Weekday(0) + 1]}
PlanTexts == {<<"e", ";", "f">>}
ReviewTexts == {BTN_CONTINUE}

\* The evening of a set-up user with two items for the day, one of them due
\* at the summary's minute, which is the clock's last: every step of the
\* evening happens within it.
InitItog ==
    /\ now = MaxNow
    /\ base = (23 * 60 + 59) - TzOffset(DEFAULT_TIMEZONE) - (now \div SubMin)
    /\ usersFile = [order |-> <<"u1">>,
                    data |-> ("u1" :> Profile(<<Item(T2359, <<"a">>), Item(None, <<"c">>)>>,
                                              << >>, TRUE, HHMM(9 * 60)))]
    /\ sched = Boot(now)
    /\ InitHistory
    /\ last = Unobserved
    /\ chat = Unobserved

NextItog ==
    \/ \E u \in Writers : PlanCommand(u)
    \/ \E u \in Writers : StartItog(u)
    \/ \E u \in Writers, message \in DayTexts : ChooseDay(u, message)
    \/ \E u \in Writers, message \in PlanTexts : EnterPlans(u, message)
    \/ \E u \in Writers, message \in ReviewTexts : HandleReviewAction(u, message)
    \/ \E u \in Writers, message \in {BTN_YES, BTN_NO} : HandleItogResponse(u, message)
    \/ Resume
    \/ SchedWake
    \/ SchedReminderSent
    \/ SchedSummaryDone

SpecItog == InitItog /\ [][NextItog]_vars

\* C9: the write that completes an evening review leaves, for the session's
\* day, the list the profile had when the session was completed without the
\* positions the session marked completed, and leaves the other days alone.
C9_CompletionPrunesLiveList ==
    \A e \in DOMAIN itogs :
        /\ e.result = Remaining(e.live, e.completed)
        /\ e.others

\* C10: the write that prunes the day's list also clears the session, and a
\* session is applied to the plan at most once.
C10_SessionAppliedOnce ==
    /\ \A e \in DOMAIN itogs : e.cleared /\ itogs[e] = 1
    /\ \A e1 \in DOMAIN itogs, e2 \in DOMAIN itogs :
          (e1.u = e2.u /\ e1.sid = e2.sid) => e1 = e2

\* --------------------------------------------- the conversation by itself

\* What the user writes while choosing a day, entering plans and reviewing
\* them; x stands for a text that is no button and no day.
SessionDayTexts == {DAYS_SHORT[Weekday(0) + 1], DAYS_SHORT[7],
                    BTN_DONE, BTN_SKIP_ALL, BTN_DELETE_DAY, <<"x">>}
SessionPlanTexts == {<<"e">>, <<";">>, BTN_SKIP_DAY, BTN_CANCEL}
SessionReviewTexts == {BTN_CONTINUE, BTN_APPEND, BTN_EDIT, <<"x">>}

T0900 == HHMM(9 * 60)

\* A registered user's plans for today, as enter_plans stores them.
SessionTodayPlans == { << >>, <<Item(None, <<"a">>)>>,
                       <<Item(T0900, <<"a">>), Item(None, <<"b">>)>> }

\* A bystander's record.
Bystander == Profile(<<Item(None, <<"z">>)>>, << >>, TRUE, T0900)

\* The conversation of one registered user at noon, with a bystander in the
\* document and no scheduler running.
InitSession ==
    /\ now = 0
    /\ base = 12 * 60 - TzOffset(DEFAULT_TIMEZONE)
    /\ \E p0 \in SessionTodayPlans, p1 \in {<< >>, <<Item(None, <<"d">>)>>},
          setup \in BOOLEAN, nt \in {None, T0900} :
          usersFile = [order |-> <<"u1", "u2">>,
                       data |-> ("u1" :> Profile(p0, p1, setup, nt)) @@ ("u2" :> Bystander)]
    /\ sched = Boot(now)
    /\ InitHistory
    /\ last = NoEvent
    /\ chat = Unobserved

NextSession ==
    \/ \E u \in Writers : PlanCommand(u)
    \/ \E u \in Writers : StartItog(u)
    \/ \E u \in Writers, message \in SessionDayTexts : ChooseDay(u, message)
    \/ \E u \in Writers, message \in SessionPlanTexts : EnterPlans(u, message)
    \/ \E u \in Writers, message \in SessionReviewTexts : HandleReviewAction(u, message)
    \/ \E u \in Writers, message \in {BTN_YES, BTN_NO} : HandleItogResponse(u, message)
    \/ Resume

SpecSession == InitSession /\ [][NextSession]_vars

\* The yes answers among the answers a session has had.
NumYes(given) == Len(SelectSeq(given, LAMBDA a : a = BTN_YES))

\* The profile of the user of the last handler, before it and after it.
LastBefore == GetUser(last.before, last.u)
LastAfter == GetUser(last.after, last.u)
LastIs(name) == last.kind = name /\ last.done

C12_SnapshotFixed ==
    [][\A u \in Writers :
          LET old == GetUser(usersFile, u).itog_state
              new == GetUser(usersFile', u).itog_state
          IN  (old.active /\ new.active /\ old.list_message_id = new.list_message_id)
                  => /\ new.plans = old.plans
                     /\ new.date = old.date
                     /\ new.day_name = old.day_name]_vars

\* C12 happens: a plan commit or a day deletion has changed the day's live
\* list under a persisted session, which no longer equals the snapshot.
C12_LiveEditedUnderSession ==
    /\ last.kind \in {"handle_review_action", "choose_day"}
    /\ last.done
    /\ LastBefore.itog_state.active
    /\ LastAfter.itog_state.active
    /\ DayPlans(LastBefore, LastAfter.itog_state.day_name) = LastAfter.itog_state.plans
    /\ DayPlans(LastAfter, LastAfter.itog_state.day_name) # LastAfter.itog_state.plans

\* Today's list of the user of the last handler, when the handler began.
LastToday == DayPlans(LastBefore, Weekday(DateOf(get_user_now(LastBefore, last.t))))

\* C13: /itog of a user with a profile, once it has returned.  With nothing
\* planned for today it has sent one message, which is no checklist and no
\* question, has left the plans and whatever session was stored as they
\* were, and has returned MAIN_MENU.  With something planned it has stored an
\* active session whose snapshot is today's list, at position 0 with nothing
\* completed and with the id of the question it sent for the first item.
C13_StartItogRejectsEmpty ==
    LastIs("start_itog") =>
        IF LastToday = << >>
        THEN /\ last.awaited = <<"present">>
             /\ last.ret = "MAIN_MENU"
             /\ conv[last.u] = "MAIN_MENU"
             /\ LastAfter.plans = LastBefore.plans
             /\ LastAfter.itog_state = LastBefore.itog_state
        ELSE /\ last.awaited = <<"itog_begin">>
             /\ last.ret = "ITOG_REVIEW"
             /\ LastAfter.plans = LastBefore.plans
             /\ LastAfter.itog_state.active
             /\ LastAfter.itog_state.plans = LastToday
             /\ LastAfter.itog_state.current_index = 0
             /\ LastAfter.itog_state.completed = {}
             /\ LastAfter.itog_state.question_message_id > LastBefore.last_bot_message_id
             /\ LastAfter.itog_state.list_message_id # LastBefore.itog_state.list_message_id

\* C13 happens: a session was begun for a day with a list, the day's list
\* was deleted, and /itog was then rejected.
C13_RejectedAfterBegun ==
    /\ LastIs("start_itog")
    /\ LastToday = << >>
    /\ LastAfter.itog_state.active
    /\ LastAfter.itog_state.plans # << >>

\* "Продолжить" has been handled for the user of the last handler.
Continued ==
    /\ LastIs("handle_review_action")
    /\ Strip(last.message) = BTN_CONTINUE
    /\ last.ret # "raise"

\* C15: after "continue" for a day that was not skipped, the day's stored
\* list is the previous list followed by the pending items when the pending
\* action is to append, whatever the pending items are, and is the pending
\* items when the action is to replace.
C15_ContinueCommitsPending ==
    (Continued /\ ~last.ud.skip_day) =>
        DayPlans(LastAfter, last.ud.current_day) =
            IF last.ud.action = "supplement"
            THEN DayPlans(LastBefore, last.ud.current_day) \o last.ud.current_plans
            ELSE last.ud.current_plans

\* C16: after "continue" for a day that was skipped, every day's list is
\* what it was, whatever the pending action.
C16_SkippedDayKeepsPlans ==
    (Continued /\ last.ud.skip_day) => LastAfter.plans = LastBefore.plans

\* C16 happens: a day that has a list is skipped while the pending action is
\* to append, and "continue" is chosen.
C16_SkippedWhileAppending ==
    /\ Continued
    /\ last.ud.skip_day
    /\ last.ud.action = "supplement"
    /\ DayPlans(LastBefore, last.ud.current_day) # << >>

\* The last handler has signalled the end of the setup with "done" or "skip
\* all", and has sent the prompt for the notification time.
SetupSignalled ==
    /\ LastIs("choose_day")
    /\ Strip(last.message) \in {BTN_DONE, BTN_SKIP_ALL}
    /\ last.ret # "raise"
Prompted == last.awaited = <<"present_ensure", "present">> /\ last.ud_after.waiting_for_time
NotPrompted == Len(last.awaited) = 1 /\ last.ud_after.waiting_for_time = last.ud.waiting_for_time
PromptDue == LastBefore.notification_time = None /\ ~last.ud.waiting_for_time

\* C17 as stated: "continue" for the last day of the week, like "done" and
\* "skip all", leaves setup_complete true, and the prompt for the
\* notification time is sent exactly when the time is unset and no prompt is
\* pending.
C17_SetupEndsOnLastContinue ==
    (SetupSignalled \/ (Continued /\ last.ud.current_day = 6)) =>
        /\ LastAfter.setup_complete
        /\ IF PromptDue THEN Prompted ELSE NotPrompted

\* C17, amended: "done" and "skip all" leave setup_complete true, return
\* MAIN_MENU and send the prompt exactly when the time is unset and no prompt
\* is pending; "continue" never ends the setup, whatever the day: it leaves
\* setup_complete as it was, sends no prompt and returns CHOOSING_DAY.
C17_SetupEndsOnDoneOnly ==
    /\ SetupSignalled =>
          /\ LastAfter.setup_complete
          /\ last.ret = "MAIN_MENU"
          /\ IF PromptDue THEN Prompted ELSE NotPrompted
    /\ Continued =>
          /\ LastAfter.setup_complete = LastBefore.setup_complete
          /\ last.ret = "CHOOSING_DAY"
          /\ NotPrompted

\* C17 happens: the setup is signalled complete a second time while the
\* notification time is still unset and the first prompt is pending.
C17_DoneWhilePromptPending ==
    /\ SetupSignalled
    /\ LastBefore.notification_time = None
    /\ LastBefore.setup_complete
    /\ last.ud.waiting_for_time
    /\ NotPrompted

\* The last handler has taken a text in the mode "delete a day's plans" that
\* is none of the buttons choose_day looks for before that mode.
DeleteModeText ==
    /\ LastIs("choose_day")
    /\ last.ud.deleting_day
    /\ Strip(last.message) \notin {BTN_SKIP_ALL, BTN_DONE, BTN_DELETE_DAY}
    /\ last.ret # "raise"

\* C20: for a user with a profile, a day chosen in the delete mode has its
\* list emptied by one handler that sends one message and returns MAIN_MENU,
\* with the other six lists, setup_complete, notification_time and the stored
\* session as they were; a text that is no day changes none of them and the
\* conversation stays in CHOOSING_DAY, still in the delete mode.
C20_DeleteDayClearsOneDay ==
    DeleteModeText =>
        /\ last.awaited = <<"present">>
        /\ LastAfter.setup_complete = LastBefore.setup_complete
        /\ LastAfter.notification_time = LastBefore.notification_time
        /\ LastAfter.itog_state = LastBefore.itog_state
        /\ IF IsDayShort(Strip(last.message))
           THEN /\ DayPlans(LastAfter, DayIndex(Strip(last.message))) = << >>
                /\ \A d \in DAYS_OF_WEEK \ {DayIndex(Strip(last.message))} :
                      DayPlans(LastAfter, d) = DayPlans(LastBefore, d)
                /\ last.ret = "MAIN_MENU"
                /\ conv[last.u] = "MAIN_MENU"
           ELSE /\ LastAfter.plans = LastBefore.plans
                /\ last.ret = "CHOOSING_DAY"
                /\ conv[last.u] = "CHOOSING_DAY"
                /\ last.ud_after.deleting_day

\* C20 happens: a day that had a list is deleted while another day has one
\* and an evening review is stored.
C20_DayWithListDeleted ==
    /\ DeleteModeText
    /\ IsDayShort(Strip(last.message))
    /\ DayPlans(LastBefore, DayIndex(Strip(last.message))) # << >>
    /\ \E d \in DAYS_OF_WEEK \ {DayIndex(Strip(last.message))} : DayPlans(LastBefore, d) # << >>
    /\ LastBefore.itog_state.active

\* ------------------------------------------------------ entering a plan

\* The plan lines a user enters.  A piece is an optional blank, one of the
\* beginnings, a gap and a text; a line is one piece, or a piece, a semicolon
\* and a short rest.
ParseTexts ==
    LET prefixes == { << >>, <<"0", "9", ":", "0", "0">>, <<"2", "3", ":", "5", "9">>,
                      <<"2", "4", ":", "0", "0">>, <<"0", "9", ":", "6", "0">>,
                      <<"9", ":", "0", "0">>, <<"0", "9", "0", "0", ":">>,
                      <<"0", "9", ":", "0", "0", "0">>, <<"0", "e", ":", "0", "0">>,
                      <<SUP2, SUP2, ":", SUP2, SUP2>> }
        gaps == { << >>, <<" ">>, <<" ", " ">> }
        texts == { << >>, <<"e">>, <<"e", " ", "f">>, <<"0", "9", ":", "0", "0">> }
        pieces == { a \o b \o g \o c : a \in {<< >>, <<" ">>}, b \in prefixes,
                                       g \in gaps, c \in texts }
        rests == { << >>, <<"e">>, <<" ">>, <<"2", "3", ":", "5", "9", " ", "g">>,
                   <<";", "e">> }
    IN  pieces \cup { a \o <<";">> \o b : a \in pieces, b \in rests }

\* A user who has sent /plan and chosen a day (two messages of the bot) is
\* asked for the day's line, and enters one.
InitParse ==
    /\ now = 0
    /\ base = 12 * 60 - TzOffset(DEFAULT_TIMEZONE)
    /\ usersFile = [order |-> <<"u1">>,
                    data |-> ("u1" :> [Profile(<< >>, << >>, FALSE, None)
                                          EXCEPT !.last_bot_message_id = 2])]
    /\ sched = Boot(now)
    /\ restarts = 0
    /\ briefs = << >>
    /\ rems = << >>
    /\ sums = << >>
    /\ trace = [failed |-> FALSE, raised |-> FALSE, afterFail |-> FALSE]
    /\ nextId = 3
    /\ conv = [u \in UserIds |-> IF u \in Writers THEN "ENTERING_PLANS" ELSE "none"]
    /\ udata = [u \in UserIds |-> FreshUserData]
    /\ inflight = Idle
    /\ itogs = << >>
    /\ globalFile = << >>
    /\ answers = [u \in UserIds |-> << >>]
    /\ last = NoEvent
    /\ chat = Unobserved

NextParse ==
    \/ \E u \in Writers, message \in ParseTexts : EnterPlans(u, message)
    \/ Resume

SpecParse == InitParse /\ [][NextParse]_vars

\* A piece that starts with two decimal digits, a colon and two decimal
\* digits, of an hour up to 23 and a minute up to 59, followed by whitespace
\* and a text.
HasTimePrefix(piece) ==
    /\ Len(piece) > 6
    /\ piece[3] = ":"
    /\ \A k \in {1, 2, 4, 5} : piece[k] \in {Digits[d] : d \in 1 .. 10}
    /\ \E h \in 0 .. 23 : Fmt02(h) = SubSeq(piece, 1, 2)
    /\ \E m \in 0 .. 59 : Fmt02(m) = SubSeq(piece, 4, 5)
    /\ piece[6] = " "
    /\ \E k \in 7 .. Len(piece) : piece[k] # " "

\* The item a piece is to become.
ItemOfPiece(piece) ==
    IF HasTimePrefix(piece)
    THEN [time |-> SubSeq(piece, 1, 5),
          text |-> LStrip(SubSeq(piece, 7, Len(piece)))]
    ELSE [time |-> None, text |-> piece]

\* The pieces of a line between its semicolons, without the blank ones.
RECURSIVE PiecesOf(_)
PiecesOf(line) ==
    LET cut == IF \E k \in 1 .. Len(line) : line[k] = ";"
               THEN CHOOSE k \in 1 .. Len(line) :
                        line[k] = ";" /\ \A m \in 1 .. (k - 1) : line[m] # ";"
               ELSE Len(line) + 1
        piece == Strip(SubSeq(line, 1, cut - 1))
        rest == IF cut > Len(line) THEN << >> ELSE PiecesOf(SubSeq(line, cut + 1, Len(line)))
    IN  IF cut > Len(line)
        THEN IF piece = << >> THEN << >> ELSE <<piece>>
        ELSE IF piece = << >> THEN rest ELSE <<piece>> \o rest

LineEntered ==
    /\ LastIs("enter_plans")
    /\ Strip(last.message) \notin {BTN_CANCEL, BTN_SKIP_DAY}

\* C14: a plan line that has been entered is pending as the items of its
\* non-blank pieces, in order: a piece with a time prefix as the prefix and
\* the text after it, every other piece whole and without a time.
C14_LineParsedAsPieces ==
    LineEntered =>
        /\ last.ret = "REVIEW_PLANS"
        /\ last.ud_after.current_plans =
               [k \in 1 .. Len(PiecesOf(last.message)) |->
                   ItemOfPiece(PiecesOf(last.message)[k])]

\* C14, but for the lines on which the handler raises.
C14_ParsedUnlessRaised ==
    (LineEntered /\ last.ret # "raise") =>
        /\ last.ret = "REVIEW_PLANS"
        /\ last.ud_after.current_plans =
               [k \in 1 .. Len(PiecesOf(last.message)) |->
                   ItemOfPiece(PiecesOf(last.message)[k])]

\* ------------------------------------------- entering the notification time

\* The longest text a user enters as a time.
MaxTimeLen == 5

\* The texts of up to MaxTimeLen of these characters.
TimeChars == {"0", "2", "6", ":", " ", "-"}
TimeTexts == UNION { [1 .. n -> TimeChars] : n \in 1 .. MaxTimeLen }

\* A user who has finished the setup with "done" has been asked for the
\* notification time, and answers once.
InitTime ==
    /\ now = 0
    /\ base = 12 * 60 - TzOffset(DEFAULT_TIMEZONE)
    /\ usersFile = [order |-> <<"u1", "u2">>,
                    data |-> ("u1" :> [Profile(<< >>, << >>, TRUE, None)
                                          EXCEPT !.last_bot_message_id = 3])
                             @@ ("u2" :> Bystander)]
    /\ sched = Boot(now)
    /\ restarts = 0
    /\ briefs = << >>
    /\ rems = << >>
    /\ sums = << >>
    /\ trace = [failed |-> FALSE, raised |-> FALSE, afterFail |-> FALSE]
    /\ nextId = MaxMsgId
    /\ conv = [u \in UserIds |-> IF u \in Writers THEN "MAIN_MENU" ELSE "none"]
    /\ udata = [u \in UserIds |-> IF u \in Writers
                                   THEN [FreshUserData EXCEPT !.waiting_for_time = TRUE]
                                   ELSE FreshUserData]
    /\ inflight = Idle
    /\ itogs = << >>
    /\ globalFile = << >>
    /\ answers = [u \in UserIds |-> << >>]
    /\ last = NoEvent
    /\ chat = Unobserved

\* The answer, which Handle takes when no handler is running and a message
\* id is left.
TimeInput ==
    /\ ~inflight.active
    /\ nextId <= MaxMsgId
    /\ \E u \in Writers, message \in TimeTexts : MainMenu(u, message)

NextTime ==
    \/ TimeInput
    \/ Resume

SpecTime == InitTime /\ [][NextTime]_vars

\* A text of two decimal digits, a colon and two decimal digits, of an hour
\* up to 23 and a minute up to 59.
IsHHMM(text) == \E h \in 0 .. 23, m \in 0 .. 59 : text = Fmt02(h) \o <<":">> \o Fmt02(m)

\* The last handler has taken a text while the notification time was
\* awaited; it accepted it if it stored a time and stopped waiting.
TimeEntered == LastIs("main_menu") /\ last.ud.waiting_for_time /\ last.ret # "raise"
TimeAccepted == ~last.ud_after.waiting_for_time
TimeKept ==
    /\ LastAfter.notification_time = LastBefore.notification_time
    /\ last.ud_after.waiting_for_time

\* C18 as stated: the text is accepted exactly when it is HH:MM of two
\* digits each in range, and is then stored as it is; any other text leaves
\* the notification time as it was.
C18_AcceptedExactlyHHMM ==
    TimeEntered =>
        IF IsHHMM(last.message)
        THEN TimeAccepted /\ LastAfter.notification_time = last.message
        ELSE TimeKept

\* The numbers up to most that a text reads as, blanks around it aside:
\* the number written in decimal after any leading zeros, and zero also
\* after a minus sign.
NumbersRead(part, most) ==
    LET p == Strip(part)
    IN  { n \in 0 .. most :
            \E z \in 0 .. Len(p) :
                LET digits == IF n < 10 THEN <<Digits[n + 1]>> ELSE Fmt02(n)
                    body == [k \in 1 .. z |-> "0"] \o digits
                IN  \/ p = body
                    \/ (n = 0 /\ p = <<"-">> \o body) }

\* C18, amended: the text is accepted exactly when, blanks around it aside,
\* it is two numbers with one colon between them, each as int() reads it
\* (blanks around it, leading zeros and a sign allowed), of an hour from 0 to
\* 23 and a minute from 0 to 59; the time stored is then the two numbers
\* zero-padded to two digits, which is the text itself when the text is
\* HH:MM.  Every other text is rejected and leaves the time as it was.
C18_AcceptedWhenTwoNumbers ==
    TimeEntered =>
        LET text == Strip(last.message)
            colons == {k \in 1 .. Len(text) : text[k] = ":"}
            hours == IF Cardinality(colons) = 1
                     THEN NumbersRead(SubSeq(text, 1, (CHOOSE k \in colons : TRUE) - 1), 23)
                     ELSE {}
            minutes == IF Cardinality(colons) = 1
                       THEN NumbersRead(SubSeq(text, (CHOOSE k \in colons : TRUE) + 1, Len(text)),
                                        59)
                       ELSE {}
        IN  /\ IF hours # {} /\ minutes # {}
               THEN /\ TimeAccepted
                    /\ \E h \in hours, m \in minutes :
                          LastAfter.notification_time = Fmt02(h) \o <<":">> \o Fmt02(m)
               ELSE TimeKept
            /\ (IsHHMM(last.message) /\ TimeAccepted)
                   => LastAfter.notification_time = last.message
            /\ last.ret = "MAIN_MENU"

\* C18 happens: a text that is not HH:MM is accepted and another time than
\* the text is stored.
C18_UnpaddedAccepted ==
    /\ TimeEntered
    /\ TimeAccepted
    /\ ~IsHHMM(last.message)
    /\ IsHHMM(LastAfter.notification_time)
    /\ LastAfter.notification_time # last.message

\* ----------------------------------------------------- the global plans

\* What the user writes in the menu of global plans and as global plans.
GlobalMenuTexts == {BTN_ADD, BTN_REDACT, BTN_DELETE, BTN_BACK, <<"x">>}
GlobalPlanTexts == {<<"g">>, <<";">>, <<"g", ";", " ", "h">>}

\* A registered user in the main menu (after one message of the bot), with
\* or without global plans of a bystander in the store.
InitGlobal ==
    /\ now = 0
    /\ base = 12 * 60 - TzOffset(DEFAULT_TIMEZONE)
    /\ usersFile = [order |-> <<"u1", "u2">>,
                    data |-> ("u1" :> [Profile(<< >>, << >>, TRUE, T0900)
                                          EXCEPT !.last_bot_message_id = 1])
                             @@ ("u2" :> Bystander)]
    /\ sched = Boot(now)
    /\ restarts = 0
    /\ briefs = << >>
    /\ rems = << >>
    /\ sums = << >>
    /\ trace = [failed |-> FALSE, raised |-> FALSE, afterFail |-> FALSE]
    /\ nextId = 2
    /\ conv = [u \in UserIds |-> IF u \in Writers THEN "MAIN_MENU" ELSE "none"]
    /\ udata = [u \in UserIds |-> FreshUserData]
    /\ inflight = Idle
    /\ itogs = << >>
    /\ globalFile \in {<< >>, "u2" :> << <<"z">> >>}
    /\ answers = [u \in UserIds |-> << >>]
    /\ last = NoEvent
    /\ chat = Unobserved

NextGlobal ==
    \/ \E u \in Writers : MainMenu(u, MENU_GLOBAL)
    \/ \E u \in Writers, message \in GlobalMenuTexts : HandleGlobalAction(u, message)
    \/ \E u \in Writers, message \in GlobalPlanTexts : EnterGlobalPlans(u, message)
    \/ Resume

SpecGlobal == InitGlobal /\ [][NextGlobal]_vars

\* The last handler has taken "delete" in the menu of global plans.
GlobalDeleted == LastIs("handle_global_action") /\ Strip(last.message) = BTN_DELETE

\* C19: "delete" for a user without global plan items, whether the store has
\* no entry for the user or an empty one, reports that there is nothing to
\* delete and leaves the store as it was; for a user with items it removes
\* the user's entry and leaves every other user's.
C19_DeleteGlobalPlans ==
    GlobalDeleted =>
        IF GlobalOf(last.gbefore, last.u) = << >>
        THEN /\ last.awaited[1] = "say_nothing"
             /\ last.gafter = last.gbefore
        ELSE /\ last.awaited[1] = "say_cleared"
             /\ last.u \notin DOMAIN last.gafter
             /\ DOMAIN last.gafter = DOMAIN last.gbefore \ {last.u}
             /\ \A w \in DOMAIN last.gafter : last.gafter[w] = last.gbefore[w]

\* C19, but for a user whose entry in the store is an empty list.
C19_DeleteUnlessEmptyEntry ==
    (GlobalDeleted /\ ~(last.u \in DOMAIN last.gbefore /\ last.gbefore[last.u] = << >>)) =>
        IF GlobalOf(last.gbefore, last.u) = << >>
        THEN /\ last.awaited[1] = "say_nothing"
             /\ last.gafter = last.gbefore
        ELSE /\ last.awaited[1] = "say_cleared"
             /\ last.u \notin DOMAIN last.gafter
             /\ DOMAIN last.gafter = DOMAIN last.gbefore \ {last.u}
             /\ \A w \in DOMAIN last.gafter : last.gafter[w] = last.gbefore[w]

\* --------------------------------------------------- the bot's messages

\* What follows /day, and what a user writes in the main menu.
ChatDates == { <<"1", "2", ".", "0", "5", ".", "2", "0", "2", "5">>,
               <<"2", "9", ".", "0", "2", ".", "2", "0", "2", "4">>,
               <<"2", "9", ".", "0", "2", ".", "2", "0", "2", "5">>,
               <<"1", "2", ".", "0", "5">>,
               <<"1", "2", ".", "0", "5", ".", "2", "5">>,
               <<"x">> }
ChatArgs == {<< >>} \cup {<<d>> : d \in ChatDates}
ChatMenuTexts == {MENU_MY_PLANS, <<"0", "9", ":", "0", "0">>, <<"x">>}

\* The first message id Telegram hands out once the chats are recorded.
ChatFirstId == 6

\* The chat of a user who has not met the bot, or has: then the welcome and
\* the last message of a conversation are in the chat. A bystander is in the
\* document, no scheduler runs, and it is noon.
InitChat ==
    /\ now = 0
    /\ base = 12 * 60 - TzOffset(DEFAULT_TIMEZONE)
    /\ sched = Boot(now)
    /\ restarts = 0
    /\ briefs = << >>
    /\ rems = << >>
    /\ sums = << >>
    /\ trace = [failed |-> FALSE, raised |-> FALSE, afterFail |-> FALSE]
    /\ nextId = ChatFirstId
    /\ conv = [u \in UserIds |-> "none"]
    /\ udata = [u \in UserIds |-> FreshUserData]
    /\ inflight = Idle
    /\ itogs = << >>
    /\ globalFile = << >>
    /\ answers = [u \in UserIds |-> << >>]
    /\ last = NoEvent
    /\ \/ /\ usersFile = [order |-> <<"u2">>, data |-> ("u2" :> Bystander)]
          /\ chat = NoChat
       \/ \E p0 \in {<< >>, <<Item(T0900, <<"a">>), Item(None, <<"b">>)>>},
             nt \in {None, T0900} :
             /\ usersFile = [order |-> <<"u1", "u2">>,
                             data |-> ("u1" :> [Profile(p0, << >>, TRUE, nt)
                                                EXCEPT !.last_bot_message_id = ChatFirstId - 1])
                                      @@ ("u2" :> Bystander)]
             /\ chat = [NoChat EXCEPT !.shown["u1"] =
                            {[id |-> ChatFirstId - 2, via |-> "reply_text"],
                             [id |-> ChatFirstId - 1, via |-> "send_and_replace"]}]

NextChat ==
    \/ \E u \in Writers : Start(u)
    \/ \E u \in Writers, args \in ChatArgs : DayCommand(u, args)
    \/ \E u \in Writers : PlanCommand(u)
    \/ \E u \in Writers : StartItog(u)
    \/ \E u \in Writers, message \in {BTN_YES, BTN_NO} : HandleItogResponse(u, message)
    \/ \E u \in Writers, message \in ChatMenuTexts : MainMenu(u, message)
    \/ \E u \in Writers : ChooseDay(u, BTN_DONE)
    \/ \E oks \in [1 .. 2 -> BOOLEAN] : ResumeWith(oks)

SpecChat == InitChat /\ [][NextChat]_vars

\* The last thing the handler on record awaited was a call of
\* send_and_replace.
Presenting ==
    /\ last.kind # "none"
    /\ last.awaited # << >>
    /\ last.awaited[Len(last.awaited)] \in Replies \cup {"present_ensure"}

\* The message the profile recorded when that call began: the one an earlier
\* call of the same handler sent, or else the one on record when the handler
\* began.
PriorRef ==
    LET earlier == {k \in 1 .. Len(chat.events) - 1 :
                       /\ chat.events[k].op = "send"
                       /\ chat.events[k].via = "send_and_replace"}
    IN  IF earlier = {}
        THEN LastBefore.last_bot_message_id
        ELSE chat.events[CHOOSE k \in earlier : \A j \in earlier : j <= k].id

\* C21: when send_and_replace has presented a message, the deletion of the
\* message recorded before was attempted first, the new message has been
\* sent whether or not that deletion succeeded, and the persisted profile
\* records the new message as the last outgoing one.
C21_ReplaceThenRecord ==
    Presenting =>
        LET n == Len(chat.events)
        IN  /\ n >= 1
            /\ chat.events[n].op = "send"
            /\ chat.events[n].via = "send_and_replace"
            /\ [id |-> chat.events[n].id, via |-> "send_and_replace"] \in chat.shown[last.u]
            /\ GetUser(usersFile, last.u).last_bot_message_id = chat.events[n].id
            /\ PriorRef # 0 =>
                   /\ n >= 2
                   /\ chat.events[n - 1].op = "delete"
                   /\ chat.events[n - 1].id = PriorRef

\* A message was presented although the deletion before it had failed.
C21_SentAfterFailedDelete ==
    /\ Presenting
    /\ Len(chat.events) >= 2
    /\ chat.events[Len(chat.events)].op = "send"
    /\ chat.events[Len(chat.events) - 1].op = "delete"
    /\ ~chat.events[Len(chat.events) - 1].ok
    /\ GetUser(usersFile, last.u).last_bot_message_id = chat.events[Len(chat.events)].id

\* A handler has finished and no deletion has failed so far.
FinishedClean == last.kind # "none" /\ last.done /\ chat.clean

\* The messages of the bot the user of the last handler still sees.
LastShown == chat.shown[last.u]

C23_StartCreatesProfile ==
    (last.kind = "start" /\ last.u \notin DOMAIN last.before.data) =>
        /\ last.u \in DOMAIN last.after.data
        /\ LastAfter.timezone = DEFAULT_TIMEZONE
        /\ DOMAIN LastAfter.plans = DAYS_OF_WEEK
        /\ Cardinality(DOMAIN LastAfter.plans) = 7
        /\ \A d \in DAYS_OF_WEEK : LastAfter.plans[d] = << >>
        /\ LastAfter.setup_complete = FALSE
        /\ LastAfter.notification_time = None
        /\ last.u \in DOMAIN usersFile.data /\ usersFile.data[last.u] = LastAfter

\* A new user's /start has returned.
C23_NewUserStarted ==
    /\ LastIs("start")
    /\ last.u \notin DOMAIN last.before.data
    /\ last.u \in DOMAIN usersFile.data
    /\ last.awaited = <<"welcome", "present">>

\* What /day must leave alone in a profile.
Kept(user) == [user EXCEPT !.last_bot_message_id = 0]

\* The date that followed /day was missing or did not read as one.
BadDate == last.message = << >> \/ ~\E d \in 1 .. 31, m \in 1 .. 12, y \in {2024, 2025} :
               /\ d <= DaysIn(m, y)
               /\ last.message[1] = Fmt02(d) \o <<".">> \o Fmt02(m) \o <<".">>
                                        \o Fmt02(y \div 100) \o Fmt02(y % 100)

\* C24: /day, whatever follows it and whoever sends it, creates no record
\* and changes nothing in a profile but the record of the last message
\* presented, and nothing in the global plans; a date that does not read
\* gets the error and no view of a day.
C24_DayChangesNothing ==
    LastIs("day_command") =>
        /\ DOMAIN last.after.data = DOMAIN last.before.data
        /\ \A w \in DOMAIN last.before.data :
              Kept(last.after.data[w]) = Kept(last.before.data[w])
        /\ last.gafter = last.gbefore
        /\ last.ret = last.conv
        /\ BadDate /\ last.u \in DOMAIN last.before.data
              => last.awaited \in {<<"say_usage">>, <<"say_bad_date">>}
        /\ ~BadDate /\ last.u \in DOMAIN last.before.data => last.awaited = <<"show_day">>

\* The same for the users the document has a record of, which holds.
C24_DayKeepsRegisteredProfile ==
    (LastIs("day_command") /\ last.u \in DOMAIN last.before.data) => C24_DayChangesNothing

\* C25: when a tick is over, the persisted last_message_id of a profile
\* that has been sent a morning brief is the id of the latest brief sent to
\* it, whatever else the tick has sent.
C25_BriefIdPersisted ==
    sched.pc = "sleep" =>
        \A e \in DOMAIN briefs :
            (\A f \in DOMAIN briefs : f.u = e.u => f.id <= e.id)
                => /\ e.u \in DOMAIN usersFile.data
                   /\ usersFile.data[e.u].last_message_id = e.id

\* What the scheduler has no business with in a profile.
SessionFields(user) ==
    [plans |-> user.plans, timezone |-> user.timezone,
     notification_time |-> user.notification_time,
     setup_complete |-> user.setup_complete, itog_state |-> user.itog_state,
     last_bot_message_id |-> user.last_bot_message_id]

\* C26: a write of the scheduler leaves the plans, the timezone, the
\* notification time, setup_complete, itog_state and the last presented
\* message of every profile as they were persisted just before the write,
\* and neither adds nor removes a profile.
C26_SchedulerKeepsSessionFields ==
    [][(sched' # sched /\ usersFile' # usersFile) =>
          /\ DOMAIN usersFile'.data = DOMAIN usersFile.data
          /\ \A u \in DOMAIN usersFile.data :
                SessionFields(usersFile'.data[u]) = SessionFields(usersFile.data[u])]_vars

\* ------------------------------------------- the time, asked for again

\* What a user who has been asked for the time may write, twice.
RetryTexts == {MENU_SETUP, MENU_GLOBAL, MENU_MY_PLANS, MENU_TIMEZONE,
               <<"0", "9", ":", "0", "0">>, <<"9", ":", "5">>,
               <<"2", "5", ":", "0", "0">>, <<"x">>}

\* A registered user has been asked for the time; two message ids are left.
InitRetry ==
    /\ now = 0
    /\ base = 12 * 60 - TzOffset(DEFAULT_TIMEZONE)
    /\ \E setup \in BOOLEAN :
          usersFile = [order |-> <<"u1", "u2">>,
                       data |-> ("u1" :> [Profile(<< >>, << >>, setup, None)
                                             EXCEPT !.last_bot_message_id = 3])
                                @@ ("u2" :> Bystander)]
    /\ sched = Boot(now)
    /\ restarts = 0
    /\ briefs = << >>
    /\ rems = << >>
    /\ sums = << >>
    /\ trace = [failed |-> FALSE, raised |-> FALSE, afterFail |-> FALSE]
    /\ nextId = MaxMsgId - 1
    /\ conv = [u \in UserIds |-> IF u \in Writers THEN "MAIN_MENU" ELSE "none"]
    /\ udata = [u \in UserIds |-> IF u \in Writers
                                   THEN [FreshUserData EXCEPT !.waiting_for_time = TRUE]
                                   ELSE FreshUserData]
    /\ inflight = Idle
    /\ itogs = << >>
    /\ globalFile = << >>
    /\ answers = [u \in UserIds |-> << >>]
    /\ last = NoEvent
    /\ chat = Unobserved

NextRetry ==
    \/ \E u \in Writers, message \in RetryTexts : MainMenu(u, message)
    \/ Resume

SpecRetry == InitRetry /\ [][NextRetry]_vars

\* The times a text reads as: an hour and a minute with one colon between.
TimesRead(message) ==
    LET text == Strip(message)
        colons == {k \in 1 .. Len(text) : text[k] = ":"}
    IN  IF Cardinality(colons) # 1
        THEN {}
        ELSE NumbersRead(SubSeq(text, 1, (CHOOSE k \in colons : TRUE) - 1), 23)
             \X NumbersRead(SubSeq(text, (CHOOSE k \in colons : TRUE) + 1, Len(text)), 59)

\* The handler on record took the second of the two texts: no time had been
\* read from the first.
SecondText ==
    /\ LastIs("main_menu")
    /\ nextId = MaxMsgId + 1
    /\ LastBefore.notification_time = None

\* C29 (as stated): a text that does not read as a time gets the error and
\* ends the asking: the chat is in the main menu, waiting_for_time is
\* cleared, and the next text is taken as a choice of the menu.
C29_MalformedEndsTimeFlow ==
    /\ (TimeEntered /\ TimesRead(last.message) = {}) =>
           /\ last.ret = "MAIN_MENU"
           /\ ~last.ud_after.waiting_for_time
    /\ (SecondText /\ last.message = MENU_SETUP) => last.ret = "CHOOSING_DAY"

\* C29 (amended): a text that does not read as a time gets the error and
\* leaves the chat in the main menu with waiting_for_time still set and the
\* profile as it was; the next text is taken as a time again, a button of
\* the menu included, which is answered with the same error and opens
\* nothing.
C29_MalformedKeepsAsking ==
    /\ (TimeEntered /\ TimesRead(last.message) = {}) =>
           /\ last.ret = "MAIN_MENU"
           /\ conv[last.u] = "MAIN_MENU"
           /\ last.awaited = <<"present">>
           /\ TimeKept
           /\ last.after = [last.before EXCEPT
                                !.data[last.u].last_bot_message_id = LastAfter.last_bot_message_id]
    /\ SecondText => TimeEntered
    /\ (SecondText /\ last.message \in {MENU_SETUP, MENU_GLOBAL, MENU_MY_PLANS, MENU_TIMEZONE}) =>
           /\ TimeKept
           /\ conv[last.u] = "MAIN_MENU"
           /\ last.ud_after = last.ud

\* The second text was a button of the menu and was taken as a time.
C29_ButtonTakenAsTime ==
    /\ SecondText
    /\ last.message = MENU_SETUP
    /\ last.ud_after.waiting_for_time
    /\ conv[last.u] = "MAIN_MENU"

\* ------------------------------------------------- the entry of a day

\* The plan lists of a document.
PlansOf(doc) == [w \in DOMAIN doc.data |-> doc.data[w].plans]

\* The handler on record took an input of the entry of a day: the choice of
\* the day, a text of items, or a button of the review other than the one
\* that continues.
EntryInput ==
    \/ last.kind = "enter_plans"
    \/ last.kind = "handle_review_action" /\ Strip(last.message) # BTN_CONTINUE
    \/ /\ last.kind = "choose_day"
       /\ IsDayShort(Strip(last.message))
       /\ ~last.ud.deleting_day

\* C30: between the choice of a day and the button that continues, no input
\* changes a persisted plan list or the global plans; the button that
\* cancels the entry leads to the main menu.
C30_EntryWritesNothing ==
    /\ EntryInput =>
           /\ PlansOf(last.after) = PlansOf(last.before)
           /\ PlansOf(usersFile) = PlansOf(last.before)
           /\ last.gafter = last.gbefore
           /\ globalFile = last.gbefore
    /\ (LastIs("enter_plans") /\ Strip(last.message) = BTN_CANCEL) =>
           /\ last.ret = "MAIN_MENU"
           /\ conv[last.u] = "MAIN_MENU"

\* An entry that was to add to a day's list was cancelled.
C30_EntryCancelled ==
    /\ LastIs("enter_plans")
    /\ Strip(last.message) = BTN_CANCEL
    /\ last.ud.action = "supplement"
    /\ last.ud.current_plans # << >>
    /\ conv[last.u] = "MAIN_MENU"
    /\ PlansOf(usersFile) = PlansOf(last.before)

\* ------------------------------------------------ the brief, once more

\* The tick that runs, or has run last, is past the brief of profile u.
PastBrief(u) ==
    /\ u \in DOMAIN sched.seen
    /\ \/ Pos(u) < sched.i
       \/ Pos(u) = sched.i /\ sched.pc \in {"remSend", "sumSend"}

\* C28: a tick that finds a set-up profile in the minute of its
\* notification time sends the brief although the profile it loaded records
\* a brief sent in that same minute: the minute alone decides.
C28_BriefSentAgain ==
    \A u \in DOMAIN sched.seen, e \in DOMAIN briefs :
        ( /\ PastBrief(u)
          /\ ~trace.failed
          /\ sched.users.data[u].setup_complete
          /\ sched.users.data[u].notification_time = sched.seen[u].cur
          /\ e.u = u
          /\ e.cur = sched.seen[u].cur
          /\ sched.users.data[u].last_message_id = e.id )
        => \E f \in DOMAIN briefs : f.u = u /\ f.cur = e.cur /\ f.id > e.id

\* Two briefs have gone to a profile in one minute, the second after a
\* restart.
C28_TwoBriefsInOneMinute ==
    /\ restarts = 1
    /\ \E e, f \in DOMAIN briefs :
          /\ e.u = f.u /\ e.cur = f.cur /\ e.nt = e.cur /\ e.id < f.id
          /\ PastBrief(e.u)
          /\ sched.users.data[e.u].last_message_id = e.id

\* ------------------------------------------- a commit during a tick

T1200 == HHMM(12 * 60)

\* What the user writes while the tick runs.
RaceReviewTexts == {BTN_CONTINUE, BTN_EDIT}
RacePlanTexts == {<<"f">>}

\* Noon, the minute of an item of today's list: the scheduler is about to
\* run its one tick; the user, who has not finished the setup, reviews the
\* list entered for today or for tomorrow.
InitRace ==
    /\ now = MaxNow
    /\ base = 12 * 60 - TzOffset(DEFAULT_TIMEZONE) - (now \div SubMin)
    /\ \E p0 \in {<<Item(T1200, <<"a">>)>>, <<Item(T1200, <<"a">>), Item(T1200, <<"b">>)>>} :
          usersFile = [order |-> <<"u1">>,
                       data |-> ("u1" :> [Profile(p0, << >>, FALSE, T0900)
                                             EXCEPT !.last_bot_message_id = MaxMsgId - 3])]
    /\ sched = Boot(now)
    /\ restarts = 0
    /\ briefs = << >>
    /\ rems = << >>
    /\ sums = << >>
    /\ trace = [failed |-> FALSE, raised |-> FALSE, afterFail |-> FALSE]
    /\ nextId = MaxMsgId - 2
    /\ conv = [u \in UserIds |-> IF u \in Writers THEN "REVIEW_PLANS" ELSE "none"]
    /\ \E day \in {Weekday(DateOf(12 * 60)), Weekday(DateOf(12 * 60) + 1)},
          plans \in {<<Item(None, <<"e">>)>>, <<Item(T1200, <<"e">>)>>} :
          udata = [u \in UserIds |-> IF u \in Writers
                                     THEN [FreshUserData EXCEPT !.current_day = day,
                                                                !.current_plans = plans]
                                     ELSE FreshUserData]
    /\ inflight = Idle
    /\ itogs = << >>
    /\ globalFile = << >>
    /\ answers = [u \in UserIds |-> << >>]
    /\ last = NoEvent
    /\ chat = Unobserved

NextRace ==
    \/ \E u \in Writers, message \in RaceReviewTexts : HandleReviewAction(u, message)
    \/ \E u \in Writers, message \in RacePlanTexts : EnterPlans(u, message)
    \/ Resume
    \/ SchedWake
    \/ SchedReminderSent

SpecRace == InitRace /\ [][NextRace]_vars

\* The commit of a day and the tick are both over, and the tick has sent the
\* user a reminder.
BothOver ==
    /\ Continued
    /\ sched.pc = "sleep"
    /\ sched.ran
    /\ \E e \in DOMAIN rems : e.u = last.u

\* The persisted document has the list that was committed.
PlanPersisted ==
    DayPlans(usersFile.data[last.u], last.ud.current_day) = last.ud.current_plans

\* The persisted document has the marker of every reminder sent.
MarkersPersisted ==
    \A e \in DOMAIN rems : <<e.date, e.time, e.text>> \in usersFile.data[e.u].sent

\* C27: the store is one document that every writer writes whole, from the
\* copy it loaded: when a commit of a day and a tick that reminded the same
\* user are both over, the persisted document is the copy of the one that
\* wrote last, the handler's with the committed list or the tick's with the
\* markers; what the other wrote after the copy was loaded is not in it.
C27_LastWriterWins ==
    BothOver =>
        \/ usersFile = last.after /\ PlanPersisted
        \/ usersFile = sched.users /\ MarkersPersisted

\* The commit is over, the tick is over, and the committed list is not in
\* the persisted document.
C27_CommitLost ==
    /\ BothOver
    /\ MarkersPersisted
    /\ ~PlanPersisted
    /\ DayPlans(last.after.data[last.u], last.ud.current_day) = last.ud.current_plans

\* ------------------------------------------- the evening review by itself

\* What the user writes while the review asks: the two buttons, the word of
\* the first in small letters, and a text that is neither.
ReviewAnswerTexts == {BTN_YES, BTN_NO, Lower(BTN_YES), <<"x">>}

\* The lists for today the review is held on.
ReviewTodayPlans == { <<Item(None, <<"a">>)>>,
                      <<Item(T0900, <<"a">>), Item(None, <<"b">>)>>,
                      <<Item(T0900, <<"a">>), Item(None, <<"b">>), Item(None, <<"a">>)>> }

\* A set-up user at noon, with a bystander in the document and no scheduler
\* running.
InitReview ==
    /\ now = 0
    /\ base = 12 * 60 - TzOffset(DEFAULT_TIMEZONE)
    /\ \E p0 \in ReviewTodayPlans :
          usersFile = [order |-> <<"u1", "u2">>,
                       data |-> ("u1" :> Profile(p0, << >>, TRUE, T0900))
                                @@ ("u2" :> Bystander)]
    /\ sched = Boot(now)
    /\ InitHistory
    /\ last = NoEvent
    /\ chat = Unobserved

NextReview ==
    \/ StartItog("u1")
    \/ \E message \in ReviewAnswerTexts : HandleItogResponse("u1", message)
    \/ \E message \in ReviewAnswerTexts : Unhandled("u1", message)
    \/ PlanCommand("u1")
    \/ Start("u1")
    \/ Restart
    \/ Resume

SpecReview == InitReview /\ [][NextReview]_vars

\* The session the last handler found persisted, and the one it left.
SessionBefore == GetUser(last.before, last.u).itog_state
SessionAfter == GetUser(last.after, last.u).itog_state

\* The positions of the answers given that are the button for yes.
YesPositions(given) == {k - 1 : k \in {j \in 1 .. Len(given) : given[j] = BTN_YES}}

Sessions == {usersFile.data[u].itog_state : u \in
                {v \in DOMAIN usersFile.data : usersFile.data[v].itog_state.active}}

\* C32: a persisted session has a list to ask about and a current_index
\* from 0 to below the length of the list: the write of the answer that
\* takes the index to the length is the write that clears the session.
C32_IndexBelowLength ==
    \A state \in Sessions :
        /\ state.plans # << >>
        /\ state.current_index \in 0 .. (Len(state.plans) - 1)

\* Witness of C32: a session of two items has been ended by its second
\* answer and the document holds no session.
C32_LastAnswerEndedSession ==
    /\ Sessions = {}
    /\ \E e \in DOMAIN itogs : Len(e.snapshot) = 2 /\ e.cleared

\* The session of u the document holds, NoItog when it holds none.
SessionOf(doc, u) == GetUser(doc, u).itog_state

C34_ReviewingIffSession ==
    ~inflight.active =>
        \A u \in UserIds : (conv[u] = "ITOG_REVIEW") <=> SessionOf(usersFile, u).active

\* The half of C34 from the conversation to the profile.
C34_ReviewingHasSession ==
    ~inflight.active =>
        \A u \in UserIds : (conv[u] = "ITOG_REVIEW") => SessionOf(usersFile, u).active

\* ------------------------------------- the evening review and the scheduler

\* The evening of InitItog with the handlers recorded: the user holds the
\* review and writes nothing else, while the scheduler sends the reminder
\* and the summary of the minute.
InitEvening ==
    /\ now = MaxNow
    /\ base = (23 * 60 + 59) - TzOffset(DEFAULT_TIMEZONE) - (now \div SubMin)
    /\ usersFile = [order |-> <<"u1">>,
                    data |-> ("u1" :> Profile(<<Item(T2359, <<"a">>), Item(None, <<"c">>)>>,
                                              << >>, TRUE, HHMM(9 * 60)))]
    /\ sched = Boot(now)
    /\ InitHistory
    /\ last = NoEvent
    /\ chat = Unobserved

NextEvening ==
    \/ StartItog("u1")
    \/ \E message \in {BTN_YES, BTN_NO} : HandleItogResponse("u1", message)
    \/ Resume
    \/ SchedWake
    \/ SchedReminderSent
    \/ SchedSummaryDone

SpecEvening == InitEvening /\ [][NextEvening]_vars

\* The document with the list of u's session emptied.
WithEmptySnapshot(doc, u) ==
    PutUser(doc, u, [doc.data[u] EXCEPT !.itog_state.plans = << >>])

\* C35: an answer that finds no session in the profile leaves every plan and
\* every itog_state as they were, says that the review is not active and
\* returns MAIN_MENU; and handle_itog_response, given a session whose list
\* is empty, clears the session, leaves every plan as it was, says that
\* there are no plans and returns MAIN_MENU.
C35_AnswerWithoutSession ==
    /\ (LastIs("handle_itog_response") /\ ~SessionBefore.active) =>
          /\ last.awaited = <<"say_not_active">>
          /\ last.ret = "MAIN_MENU"
          /\ DOMAIN last.after.data = DOMAIN last.before.data
          /\ \A u \in DOMAIN last.before.data :
                /\ last.after.data[u].plans = last.before.data[u].plans
                /\ last.after.data[u].itog_state = last.before.data[u].itog_state
    /\ \A u \in DOMAIN usersFile.data, message \in {BTN_YES, BTN_NO} :
          usersFile.data[u].itog_state.active =>
             LET doc == WithEmptySnapshot(usersFile, u)
                 out == handle_itog_response(u, udata[u], doc, message)
             IN  /\ out.todo = <<"say_no_plans">> /\ out.ret = "MAIN_MENU"
                 /\ out.file.data[u].itog_state = NoItog
                 /\ \A v \in DOMAIN doc.data : out.file.data[v].plans = doc.data[v].plans

\* Witness of C35: an answer has found the profile without the session the
\* user began, and the handler has returned.
C35_AnswerFoundNoSession ==
    /\ LastIs("handle_itog_response")
    /\ ~SessionBefore.active
    /\ last.conv = "ITOG_REVIEW"
    /\ last.awaited = <<"say_not_active">>

\* The await of start_itog returns in this step, with the session it
\* persists, while the document holds a session of u already.
Restarting(u) ==
    /\ inflight.active /\ inflight.uid = u
    /\ Head(inflight.todo) = "itog_begin"
    /\ SessionOf(usersFile, u).active

\* What the step has sent and deleted is the deletion of the old question,
\* the deletion of the old list, the new list and the new question, in that
\* order.
TornDownFirst(old, new, events) ==
    /\ Len(events) = 4
    /\ events[1].op = "delete" /\ events[1].id = old.question_message_id
    /\ events[2].op = "delete" /\ events[2].id = old.list_message_id
    /\ events[3] = [op |-> "send", id |-> new.list_message_id, via |-> "reply_text"]
    /\ events[4] = [op |-> "send", id |-> new.question_message_id,
                    via |-> "send_itog_question"]

\* The sessions this step applies to the plans, as the history has them.
AppliedNow == {e \in DOMAIN itogs' : e \notin DOMAIN itogs \/ itogs'[e] > itogs[e]}

InitStranger ==
    /\ now = 0
    /\ base = 12 * 60 - TzOffset(DEFAULT_TIMEZONE)
    /\ usersFile = [order |-> <<"u2">>, data |-> ("u2" :> Bystander)]
    /\ sched = Boot(now)
    /\ InitHistory
    /\ last = Unobserved
    /\ chat = Unobserved

NextStranger ==
    \/ Start("u1")
    \/ \E args \in {<< >>, << <<"x">> >>} : DayCommand("u1", args)
    \/ PlanCommand("u1")
    \/ StartItog("u1")
    \/ TimezoneCommand("u1")
    \/ Resume
    \/ SchedWake
    \/ Advance

SpecStranger == InitStranger /\ [][NextStranger]_vars

\* C37: every record of the document has plans for exactly the seven days
\* of the week.
C37_PlansHaveSevenDays ==
    \A u \in DOMAIN usersFile.data : DOMAIN usersFile.data[u].plans = DAYS_OF_WEEK

\* ------------------------------------------- two users and the scheduler

\* Noon: u1 has an untimed item for today and holds the evening review; u2
\* has an item due this minute, of which the one tick sends the reminder.
InitCross ==
    /\ now = MaxNow
    /\ base = 12 * 60 - TzOffset(DEFAULT_TIMEZONE) - (now \div SubMin)
    /\ usersFile = [order |-> <<"u1", "u2">>,
                    data |-> ("u1" :> Profile(<<Item(None, <<"a">>)>>, << >>, TRUE, T0900))
                             @@ ("u2" :> Profile(<<Item(T1200, <<"b">>)>>, << >>, TRUE, T0900))]
    /\ sched = Boot(now)
    /\ InitHistory
    /\ last = NoEvent
    /\ chat = Unobserved

NextCross ==
    \/ StartItog("u1")
    \/ \E message \in {BTN_YES, BTN_NO} : HandleItogResponse("u1", message)
    \/ Resume
    \/ SchedWake
    \/ SchedReminderSent

SpecCross == InitCross /\ [][NextCross]_vars

\* The user on whose behalf the step writes the document: the user of the
\* reminder the tick has sent, or the user whose update is handled.
WrittenFor == IF sched' # sched THEN CurUid(sched) ELSE last'.u

\* C38: a write of the document on behalf of one user leaves the record of
\* every other user as it was.
C38_OthersRecordsKept ==
    [][usersFile' # usersFile =>
          \A v \in DOMAIN usersFile.data :
              v # WrittenFor =>
                  /\ v \in DOMAIN usersFile'.data
                  /\ usersFile'.data[v] = usersFile.data[v]]_vars

\* C39: the document holds a last_summary_date for a profile only when a
\* summary has been delivered to that profile and stored under that date: a
\* summary whose send fails leaves the persisted date as it was, whatever
\* the tick sends afterwards.
C39_DateOnlyWhenDelivered ==
    \A u \in DOMAIN usersFile.data :
        usersFile.data[u].last_summary_date # NoDate =>
            \E e \in DOMAIN sums :
                e.u = u /\ e.date2 = usersFile.data[u].last_summary_date

\* ------------------------------------------------ /start, said once more

\* The session a profile may hold.
StartSessions ==
    {NoItog,
     [active |-> TRUE, date |-> 0, day_name |-> Weekday(0),
      plans |-> <<Item(T0900, <<"a">>), Item(None, <<"b">>)>>,
      current_index |-> 1, completed |-> {0},
      list_message_id |-> 1, question_message_id |-> 3]}

\* The states the conversation of a user with a profile may be in.
StartConvs == {"none", "MAIN_MENU", "CHOOSING_DAY", "ENTERING_PLANS", "REVIEW_PLANS",
               "GLOBAL_MENU", "ITOG_REVIEW"}

\* A user with a profile, in any state of the conversation, with a bystander
\* in the document and no scheduler running: the profile is one the handlers
\* and the scheduler leave behind.
InitStart ==
    /\ now = 0
    /\ base = 12 * 60 - TzOffset(DEFAULT_TIMEZONE)
    /\ \/ \E p0 \in {<< >>, <<Item(T0900, <<"a">>), Item(None, <<"b">>)>>},
             tz \in TIMEZONES, setup \in BOOLEAN, nt \in {None, T0900},
             summary \in {NoDate, 0}, state \in StartSessions :
             usersFile = [order |-> <<"u1", "u2">>,
                          data |-> ("u1" :> [Profile(p0, << >>, setup, nt) EXCEPT
                                                !.timezone = tz,
                                                !.last_summary_date = summary,
                                                !.itog_state = state,
                                                !.last_bot_message_id = 4])
                                   @@ ("u2" :> Bystander)]
       \/ \* the record send_and_replace makes for a user without one
          usersFile = [order |-> <<"u2", "u1">>,
                       data |-> ("u1" :> [NewUser EXCEPT !.plans = << >>,
                                                         !.last_bot_message_id = 4])
                                @@ ("u2" :> Bystander)]
    /\ sched = Boot(now)
    /\ restarts = 0
    /\ briefs = << >>
    /\ rems = << >>
    /\ sums = << >>
    /\ trace = [failed |-> FALSE, raised |-> FALSE, afterFail |-> FALSE]
    /\ nextId = 5
    /\ \E c \in StartConvs : conv = [u \in UserIds |-> IF u = "u1" THEN c ELSE "none"]
    /\ \E waiting \in BOOLEAN :
          /\ waiting => usersFile.data["u1"].notification_time = None
          /\ udata = [u \in UserIds |-> [FreshUserData EXCEPT !.waiting_for_time =
                                                                 waiting /\ u = "u1"]]
    /\ inflight = Idle
    /\ itogs = << >>
    /\ globalFile = << >>
    /\ answers = [u \in UserIds |-> << >>]
    /\ last = NoEvent
    /\ chat = Unobserved

NextStart ==
    \/ Start("u1")
    \/ Resume

SpecStart == InitStart /\ [][NextStart]_vars

\* What /start is to keep of a record.
StoredData(user) ==
    [plans |-> [d \in DAYS_OF_WEEK |-> DayPlans(user, d)],
     timezone |-> user.timezone,
     notification_time |-> user.notification_time,
     setup_complete |-> user.setup_complete,
     last_summary_date |-> user.last_summary_date,
     itog_state |-> user.itog_state]

\* C40: from its first write to its return, /start of a user who has a
\* record leaves in the document the plans, timezone, notification_time,
\* setup_complete, last_summary_date and itog_state the record had, in
\* whatever state the conversation was, and leaves the other records alone.
C40_StartKeepsStoredData ==
    (last.kind = "start" /\ last.u \in DOMAIN last.before.data) =>
        /\ usersFile = last.after
        /\ DOMAIN usersFile.data = DOMAIN last.before.data
        /\ StoredData(usersFile.data[last.u]) = StoredData(last.before.data[last.u])
        /\ \A v \in DOMAIN last.before.data \ {last.u} :
              usersFile.data[v] = last.before.data[v]

\* Witness of C40: /start has returned to a user in the middle of an evening
\* review, whose zone is not the default one and who has had a summary.
C40_StartedAgainInReview ==
    /\ LastIs("start")
    /\ last.conv = "ITOG_REVIEW"
    /\ last.before.data[last.u].itog_state.active
    /\ last.before.data[last.u].timezone # DEFAULT_TIMEZONE
    /\ last.before.data[last.u].last_summary_date # NoDate
    /\ last.before.data[last.u].setup_complete
    /\ DayPlans(last.before.data[last.u], Weekday(0)) # << >>
    /\ conv[last.u] = "MAIN_MENU"

====
